---- MODULE Spec2Model ----
(***************************************************************************)
(* A model of the gsip SIP parser (package sip): the public facade         *)
(* (NewParser, Write, Stop, Reset), the framing loop parser.parse, and the *)
(* grammar-level parsers it calls.  Texts are sequences of one-character   *)
(* strings; indices are 0-based as in the Go source (see Slice and At).    *)
(***************************************************************************)
EXTENDS Integers, Sequences, FiniteSets, TLC

(***************************************************************************)
(* Text helpers: the parts of Go's strings / strconv packages the parser   *)
(* uses, computed byte by byte.                                            *)
(***************************************************************************)
CR == "\r"
LF == "\n"
TAB == "\t"
SP == " "
NUL == "NUL"
CRLF == <<CR, LF>>

\* Go's s[lo:hi] and s[i] on 0-based indices.
Slice(s, lo, hi) == SubSeq(s, lo + 1, hi)
At(s, i) == s[i + 1]
From(s, lo) == SubSeq(s, lo + 1, Len(s))

MinOf(S) == CHOOSE x \in S : \A y \in S : x <= y

\* strings.Index(s, string(c)): 0-based, -1 when absent.
IndexByte(s, c) ==
    LET hits == {i \in 1..Len(s) : s[i] = c}
    IN  IF hits = {} THEN -1 ELSE MinOf(hits) - 1

\* strings.IndexAny(s, chars)
IndexAny(s, chars) ==
    LET hits == {i \in 1..Len(s) : s[i] \in chars}
    IN  IF hits = {} THEN -1 ELSE MinOf(hits) - 1

\* strings.Index(s, sub) for a non-empty sub.
IndexStr(s, sub) ==
    LET n == Len(sub)
        hits == {i \in 1..(Len(s) - n + 1) : SubSeq(s, i, i + n - 1) = sub}
    IN  IF hits = {} THEN -1 ELSE MinOf(hits) - 1

\* strings.Count(s, string(c))
CountByte(s, c) == Cardinality({i \in 1..Len(s) : s[i] = c})

\* strings.Contains(s, string(c))
ContainsByte(s, c) == \E i \in 1..Len(s) : s[i] = c

\* The characters unicode.IsSpace accepts, of those a text here can hold.
SpaceChars == {SP, TAB, CR, LF}
\* abnfWs = " \t"
abnfWs == {SP, TAB}

RECURSIVE TrimLeftSet(_, _)
TrimLeftSet(s, cut) ==
    IF s # <<>> /\ Head(s) \in cut THEN TrimLeftSet(Tail(s), cut) ELSE s

RECURSIVE TrimRightSet(_, _)
TrimRightSet(s, cut) ==
    IF s # <<>> /\ s[Len(s)] \in cut
    THEN TrimRightSet(SubSeq(s, 1, Len(s) - 1), cut) ELSE s

\* strings.TrimSpace
TrimSpace(s) == TrimRightSet(TrimLeftSet(s, SpaceChars), SpaceChars)

UpperLetters ==
    <<"A","B","C","D","E","F","G","H","I","J","K","L","M",
      "N","O","P","Q","R","S","T","U","V","W","X","Y","Z">>
LowerLetters ==
    <<"a","b","c","d","e","f","g","h","i","j","k","l","m",
      "n","o","p","q","r","s","t","u","v","w","x","y","z">>

LowerChar(c) ==
    IF \E i \in 1..26 : UpperLetters[i] = c
    THEN LowerLetters[CHOOSE i \in 1..26 : UpperLetters[i] = c] ELSE c
UpperChar(c) ==
    IF \E i \in 1..26 : LowerLetters[i] = c
    THEN UpperLetters[CHOOSE i \in 1..26 : LowerLetters[i] = c] ELSE c

\* strings.ToLower / strings.ToUpper
ToLower(s) == [i \in 1..Len(s) |-> LowerChar(s[i])]
ToUpper(s) == [i \in 1..Len(s) |-> UpperChar(s[i])]

\* strings.Split(s, string(sep)): always at least one part.
RECURSIVE Split(_, _)
Split(s, sep) ==
    LET i == IndexByte(s, sep)
    IN  IF i = -1 THEN <<s>>
        ELSE <<Slice(s, 0, i)>> \o Split(From(s, i + 1), sep)

\* strings.Join(parts, string(sep))
RECURSIVE Join(_, _)
Join(parts, sep) ==
    IF parts = <<>> THEN <<>>
    ELSE IF Len(parts) = 1 THEN parts[1]
    ELSE parts[1] \o <<sep>> \o Join(Tail(parts), sep)

Digits == <<"0","1","2","3","4","5","6","7","8","9">>
IsDigit(c) == \E i \in 1..10 : Digits[i] = c
DigitVal(c) == (CHOOSE i \in 1..10 : Digits[i] = c) - 1

RECURSIVE DecimalValue(_)
DecimalValue(s) ==
    IF s = <<>> THEN 0
    ELSE DecimalValue(SubSeq(s, 1, Len(s) - 1)) * 10 + DigitVal(s[Len(s)])

\* Decimal numerals are kept as digit texts without leading zeros, so that
\* values up to 2^32 - 1 compare exactly.
RECURSIVE StripZeros(_)
StripZeros(s) ==
    IF Len(s) > 1 /\ Head(s) = "0" THEN StripZeros(Tail(s)) ELSE s

RECURSIVE LexLess(_, _)
LexLess(a, b) ==
    IF a = <<>> THEN FALSE
    ELSE IF DigitVal(Head(a)) # DigitVal(Head(b))
    THEN DigitVal(Head(a)) < DigitVal(Head(b))
    ELSE LexLess(Tail(a), Tail(b))

\* a < b for two numerals without leading zeros.
NumLess(a, b) == Len(a) < Len(b) \/ (Len(a) = Len(b) /\ LexLess(a, b))

MaxUint16 == <<"6","5","5","3","5">>
MaxUint32 == <<"4","2","9","4","9","6","7","2","9","5">>
MaxUintOf(bits) == IF bits = 16 THEN MaxUint16 ELSE MaxUint32

\* strconv.ParseUint(s, 10, bits): a syntax error on an empty text or a
\* non-digit (signs included), a range error above 2^bits - 1 (the value
\* returned is then the maximum).
ParseUint(s, bits) ==
    IF s = <<>> \/ \E i \in 1..Len(s) : ~IsDigit(s[i])
    THEN [err |-> "syntax", val |-> <<"0">>]
    ELSE IF NumLess(MaxUintOf(bits), StripZeros(s))
    THEN [err |-> "range", val |-> MaxUintOf(bits)]
    ELSE [err |-> "nil", val |-> StripZeros(s)]

\* int(x) of a numeral; a numeral beyond nine digits stands for a length
\* that no input here reaches.
Huge == 2^30
ToInt(val) == IF Len(val) <= 9 THEN DecimalValue(val) ELSE Huge

\* MaybeString: nil is <<>>, String{Str: s} is <<s>>.
None == <<>>
Some(s) == <<s>>

(***************************************************************************)
(* Params: the ordered key / optional-value multimap (NewParams, Add).     *)
(***************************************************************************)
NewParams == <<>>
ParamsAdd(params, key, val) == Append(params, [k |-> key, v |-> val])

(***************************************************************************)
(* ParseParams: the byte-by-byte scan of a key=value block.  st is the     *)
(* scan state (buffer, key, parsingKey, inQuotes, params); the result is   *)
(* [params, consumed, err].                                                *)
(***************************************************************************)
ParamsEnd(st, consumed, permitSingletons) ==
    IF st.inQuotes
    THEN [params |-> st.params, consumed |-> consumed, err |-> "unclosed quotes"]
    ELSE IF st.parsingKey /\ permitSingletons
    THEN [params |-> ParamsAdd(st.params, st.buffer, None),
          consumed |-> consumed, err |-> "nil"]
    ELSE IF st.parsingKey
    THEN [params |-> st.params, consumed |-> consumed, err |-> "singleton"]
    ELSE [params |-> ParamsAdd(st.params, st.key, Some(st.buffer)),
          consumed |-> consumed, err |-> "nil"]

ParamsFail(st, consumed, why) ==
    [params |-> st.params, consumed |-> consumed, err |-> why]

\* The closing-quote test of the '"' case: an end quote must be the last
\* byte or be followed by sep.
QuoteCloseOk(source, consumed, sep, end) ==
    consumed = Len(source) - 1 \/ At(source, consumed + 1) = sep

RECURSIVE ParamsScan(_, _, _, _, _, _, _)
ParamsScan(source, consumed, st, sep, end, quoteValues, permitSingletons) ==
    IF consumed >= Len(source)
    THEN ParamsEnd(st, consumed, permitSingletons)
    ELSE
    LET c == At(source, consumed)
        Go(st2) == ParamsScan(source, consumed + 1, st2, sep, end,
                              quoteValues, permitSingletons)
    IN  IF c = end
        THEN IF st.inQuotes
             THEN Go([st EXCEPT !.buffer = Append(@, c)])
             ELSE ParamsEnd(st, consumed, permitSingletons)
        ELSE IF c = sep
        THEN IF st.inQuotes
             THEN Go([st EXCEPT !.buffer = Append(@, c)])
             ELSE IF st.parsingKey /\ permitSingletons
             THEN Go([st EXCEPT !.params = ParamsAdd(@, st.buffer, None),
                                !.buffer = <<>>, !.parsingKey = TRUE])
             ELSE IF st.parsingKey
             THEN ParamsFail(st, consumed, "singleton")
             ELSE Go([st EXCEPT !.params = ParamsAdd(@, st.key, Some(st.buffer)),
                                !.buffer = <<>>, !.parsingKey = TRUE])
        ELSE IF c = "\""
        THEN IF ~quoteValues
             THEN Go([st EXCEPT !.buffer = Append(@, c)])
             ELSE IF st.parsingKey
             THEN ParamsFail(st, consumed, "quote in key")
             ELSE IF ~st.inQuotes /\ st.buffer # <<>>
             THEN ParamsFail(st, consumed, "quote in value")
             ELSE IF st.inQuotes /\ ~QuoteCloseOk(source, consumed, sep, end)
             THEN ParamsFail(st, consumed, "text after quote")
             ELSE Go([st EXCEPT !.inQuotes = ~@])
        ELSE IF c = "="
        THEN IF st.buffer = <<>>
             THEN ParamsFail(st, consumed, "empty key")
             ELSE IF ~st.parsingKey
             THEN ParamsFail(st, consumed, "= in value")
             ELSE Go([st EXCEPT !.key = st.buffer, !.buffer = <<>>,
                                !.parsingKey = FALSE])
        ELSE IF ~st.inQuotes /\ c \in abnfWs
        THEN Go(st)
        ELSE Go([st EXCEPT !.buffer = Append(@, c)])

ParamsInit ==
    [buffer |-> <<>>, key |-> <<>>, parsingKey |-> TRUE, inQuotes |-> FALSE,
     params |-> NewParams]

ParseParams(source, start, sep, end, quoteValues, permitSingletons) ==
    IF Len(source) = 0
    THEN [params |-> NewParams, consumed |-> 0, err |-> "nil"]
    ELSE IF start # NUL /\ source[1] # start
    THEN [params |-> NewParams, consumed |-> 0, err |-> "bad start"]
    ELSE ParamsScan(source, IF start # NUL THEN 1 ELSE 0, ParamsInit,
                    sep, end, quoteValues, permitSingletons)

(***************************************************************************)
(* URIs.  A Uri is a record; WildcardUri has wildcard = TRUE.              *)
(***************************************************************************)
NoUri ==
    [wildcard |-> FALSE, encrypted |-> FALSE, user |-> None, password |-> None,
     host |-> <<>>, port |-> None, uriParams |-> NewParams, headers |-> NewParams]
WildcardUri == [NoUri EXCEPT !.wildcard = TRUE]

\* ParseHostPort: [host, port, err]; the port is a uint16 numeral.
ParseHostPort(rawText) ==
    LET colonIdx == IndexByte(rawText, ":")
        p == ParseUint(From(rawText, colonIdx + 1), 16)
    IN  IF colonIdx = -1
        THEN [host |-> rawText, port |-> None, err |-> "nil"]
        ELSE [host |-> Slice(rawText, 0, colonIdx), port |-> Some(p.val),
              err |-> IF p.err = "nil" THEN "nil" ELSE "bad port"]

\* Where the host[:port] part of a SIP URI ends (the text after user-info).
EndOfUriPart(uriStr) ==
    IF IndexByte(uriStr, ";") # -1 THEN IndexByte(uriStr, ";")
    ELSE IF IndexByte(uriStr, "?") # -1 THEN IndexByte(uriStr, "?")
    ELSE Len(uriStr)

\* The user-info part: [user, password, rest].
SipUserInfo(uriStr) ==
    LET endOfUserInfoPart == IndexByte(uriStr, "@")
        colon == IndexByte(uriStr, ":")
        endOfUsernamePart == IF colon > endOfUserInfoPart THEN -1 ELSE colon
    IN  IF endOfUserInfoPart = -1
        THEN [user |-> None, password |-> None, rest |-> uriStr]
        ELSE IF endOfUsernamePart = -1
        THEN [user |-> Some(Slice(uriStr, 0, endOfUserInfoPart)),
              password |-> None, rest |-> From(uriStr, endOfUserInfoPart + 1)]
        ELSE [user |-> Some(Slice(uriStr, 0, endOfUsernamePart)),
              password |-> Some(Slice(uriStr, endOfUsernamePart + 1,
                                      endOfUserInfoPart)),
              rest |-> From(uriStr, endOfUserInfoPart + 1)]

\* The parameters and headers after host[:port]; base holds what was parsed
\* so far.
SipUriHeaders(uri, rest, hp) ==
    IF hp.err # "nil" THEN [uri |-> uri, err |-> hp.err]
    ELSE IF Len(From(rest, hp.consumed)) > 0
    THEN [uri |-> [uri EXCEPT !.headers = hp.params], err |-> "ended early"]
    ELSE [uri |-> [uri EXCEPT !.headers = hp.params], err |-> "nil"]

SipUriParams(base, uriStr, up) ==
    IF up.err # "nil" THEN [uri |-> base, err |-> up.err]
    ELSE SipUriHeaders([base EXCEPT !.uriParams = up.params],
                       From(uriStr, up.consumed),
                       ParseParams(From(uriStr, up.consumed), "?", "&", NUL,
                                   TRUE, FALSE))

SipUriTail(base, uriStr) ==
    SipUriParams(base, uriStr,
                 IF uriStr[1] = ";"
                 THEN ParseParams(uriStr, ";", ";", "?", TRUE, TRUE)
                 ELSE [params |-> NewParams, consumed |-> 0, err |-> "nil"])

\* ParseSipUri: [uri, err]; err = "panic" where the Go code indexes past
\* the end of the text.
SipUriHost(base, hp, rest) ==
    IF hp.err # "nil"
    THEN [uri |-> [base EXCEPT !.host = hp.host, !.port = hp.port],
          err |-> hp.err]
    ELSE IF Len(rest) = 0
    THEN [uri |-> [base EXCEPT !.host = hp.host, !.port = hp.port],
          err |-> "nil"]
    ELSE SipUriTail([base EXCEPT !.host = hp.host, !.port = hp.port], rest)

SipUriUser(enc, ui) ==
    SipUriHost([NoUri EXCEPT !.encrypted = enc, !.user = ui.user,
                             !.password = ui.password],
               ParseHostPort(Slice(ui.rest, 0, EndOfUriPart(ui.rest))),
               From(ui.rest, EndOfUriPart(ui.rest)))

SipUriScheme(enc, s2) ==
    IF s2 = <<>> THEN [uri |-> NoUri, err |-> "panic"]
    ELSE IF s2[1] # ":" THEN [uri |-> NoUri, err |-> "no colon"]
    ELSE SipUriUser(enc, SipUserInfo(Tail(s2)))

ParseSipUri(uriStr) ==
    IF Len(uriStr) < 3 THEN [uri |-> NoUri, err |-> "panic"]
    ELSE IF ToLower(Slice(uriStr, 0, 3)) # <<"s", "i", "p">>
    THEN [uri |-> NoUri, err |-> "bad protocol"]
    ELSE IF Len(uriStr) = 3 THEN [uri |-> NoUri, err |-> "panic"]
    ELSE IF LowerChar(uriStr[4]) = "s" THEN SipUriScheme(TRUE, From(uriStr, 4))
    ELSE SipUriScheme(FALSE, From(uriStr, 3))

\* ParseUri: the wildcard, or a sip: / sips: URI.
ParseUri(uriStr) ==
    LET colonIdx == IndexByte(uriStr, ":")
        scheme == ToLower(Slice(uriStr, 0, colonIdx))
    IN  IF TrimSpace(uriStr) = <<"*">> THEN [uri |-> WildcardUri, err |-> "nil"]
        ELSE IF colonIdx = -1 THEN [uri |-> NoUri, err |-> "no colon"]
        ELSE IF scheme = <<"s", "i", "p">> \/ scheme = <<"s", "i", "p", "s">>
        THEN ParseSipUri(uriStr)
        ELSE [uri |-> NoUri, err |-> "unsupported scheme"]

(***************************************************************************)
(* Address values (To, From, Contact, Route, Record-Route).                *)
(***************************************************************************)
\* findUnescaped(text, target, quotesDelim): the first target outside
\* double quotes, -1 when there is none.
RECURSIVE FindUnescapedFrom(_, _, _, _)
FindUnescapedFrom(text, target, idx, escaped) ==
    IF idx >= Len(text) THEN -1
    ELSE IF ~escaped /\ At(text, idx) = target THEN idx
    ELSE IF escaped
    THEN FindUnescapedFrom(text, target, idx + 1, At(text, idx) # "\"")
    ELSE FindUnescapedFrom(text, target, idx + 1, At(text, idx) = "\"")

findUnescaped(text, target) == FindUnescapedFrom(text, target, 0, FALSE)

AddrResult(dn, uri, params, err) ==
    [displayName |-> dn, uri |-> uri, params |-> params, err |-> err]

\* The display-name step of ParseAddressValue: [displayName, rest, err].
AddrDisplayName(addressText) ==
    LET firstAngleBracket == findUnescaped(addressText, "<")
        afterQuote == Tail(addressText)
        nextQuote == IndexByte(afterQuote, "\"")
    IN  IF firstAngleBracket <= 0
        THEN [displayName |-> None, rest |-> addressText, err |-> "nil"]
        ELSE IF addressText[1] = "\""
        THEN IF nextQuote = -1
             THEN [displayName |-> None, rest |-> afterQuote,
                   err |-> "unclosed quotes"]
             ELSE [displayName |-> Some(Slice(afterQuote, 0, nextQuote)),
                   rest |-> From(afterQuote, nextQuote + 1), err |-> "nil"]
        ELSE [displayName |-> Some(TrimSpace(Slice(addressText, 0,
                                                   firstAngleBracket))),
              rest |-> From(addressText, firstAngleBracket), err |-> "nil"]

\* The test ParseAddressValue makes for a '<' without its closing '>'.
MissingCloseBracket(endOfUri) == endOfUri = 0

\* The URI and parameter step: addressText is trimmed and starts the URI.
\* err = "panic" where the Go code indexes or slices out of range.
AddrParams(dn, u, pp) == AddrResult(dn, u.uri, pp.params, pp.err)

AddrUri(dn, text, startOfParams, u) ==
    IF u.err # "nil" THEN AddrResult(dn, u.uri, NewParams, u.err)
    ELSE IF startOfParams >= Len(text)
    THEN AddrResult(dn, u.uri, NewParams, "nil")
    ELSE AddrParams(dn, u, ParseParams(From(text, startOfParams),
                                       ";", ";", ",", TRUE, TRUE))

AddrUriEnds(dn, bracket, text, endOfUri) ==
    IF ~bracket /\ dn # None
    THEN AddrResult(dn, NoUri, NewParams, "name without brackets")
    ELSE IF bracket /\ MissingCloseBracket(endOfUri)
    THEN AddrResult(dn, NoUri, NewParams, "no closing bracket")
    ELSE IF endOfUri < 0 THEN AddrResult(dn, NoUri, NewParams, "panic")
    ELSE AddrUri(dn, text, IF bracket THEN endOfUri + 1 ELSE endOfUri,
                 ParseUri(Slice(text, 0, endOfUri)))

AddrUriAndParams(dn, addressText) ==
    IF addressText = <<>> THEN AddrResult(dn, NoUri, NewParams, "panic")
    ELSE AddrUriEnds(dn, addressText[1] = "<",
             IF addressText[1] = "<" THEN Tail(addressText) ELSE addressText,
             IF addressText[1] = "<" THEN IndexByte(Tail(addressText), ">")
             ELSE IF IndexByte(addressText, ";") = -1 THEN Len(addressText)
             ELSE IndexByte(addressText, ";"))

AddrAfterName(d) ==
    IF d.err # "nil" THEN AddrResult(None, NoUri, NewParams, d.err)
    ELSE AddrUriAndParams(d.displayName, TrimSpace(d.rest))

ParseAddressValue(addressText) ==
    IF Len(addressText) = 0
    THEN AddrResult(None, NoUri, NewParams, "empty body")
    ELSE AddrAfterName(AddrDisplayName(TrimSpace(addressText)))

\* ParseAddressValues: one turn of the loop over addresses + ",".  st is
\* [prevIdx, inBrackets, inQuotes, displayNames, uris, headerParams, err].
AddrValuesStep(addresses, idx, st) ==
    LET char == At(addresses, idx)
        Address(a) ==
            IF a.err # "nil" THEN [st EXCEPT !.err = a.err]
            ELSE [st EXCEPT !.prevIdx = idx + 1,
                            !.displayNames = Append(@, a.displayName),
                            !.uris = Append(@, a.uri),
                            !.headerParams = Append(@, a.params)]
    IN  IF char = "<" /\ ~st.inQuotes THEN [st EXCEPT !.inBrackets = TRUE]
        ELSE IF char = ">" /\ ~st.inQuotes
        THEN [st EXCEPT !.inBrackets = FALSE]
        ELSE IF char = "\"" THEN [st EXCEPT !.inQuotes = ~@]
        ELSE IF ~st.inQuotes /\ ~st.inBrackets /\ char = ","
        THEN Address(ParseAddressValue(Slice(addresses, st.prevIdx, idx)))
        ELSE st

\* The loop: it ends with the text or at the first address in error.
RECURSIVE AddrValuesScan(_, _, _)
AddrValuesScan(addresses, idx, st) ==
    IF idx >= Len(addresses) \/ st.err # "nil" THEN st
    ELSE AddrValuesScan(addresses, idx + 1,
                        AddrValuesStep(addresses, idx, st))

\* ParseAddressValues: [displayNames, uris, headerParams, err].
ParseAddressValues(addresses) ==
    LET st == AddrValuesScan(addresses \o <<",">>, 0,
                  [prevIdx |-> 0, inBrackets |-> FALSE, inQuotes |-> FALSE,
                   displayNames |-> <<>>, uris |-> <<>>,
                   headerParams |-> <<>>, err |-> "nil"])
    IN  [displayNames |-> st.displayNames, uris |-> st.uris,
         headerParams |-> st.headerParams, err |-> st.err]

(***************************************************************************)
(* Typed header parsers.  Each returns [headers, err]; a header is a       *)
(* record with a kind.                                                     *)
(***************************************************************************)
HdrResult(headers, err) == [headers |-> headers, err |-> err]

ToNames == {<<"t", "o">>, <<"t">>}
FromNames == {<<"f", "r", "o", "m">>, <<"f">>}
ContactNames == {<<"c", "o", "n", "t", "a", "c", "t">>, <<"m">>}

AddressHeader(kind, dn, uri, params) ==
    [kind |-> kind, displayName |-> dn, address |-> uri, params |-> params]

\* A Contact header that takes a wildcard with anything around it.
WildcardContactAny(uri, dn, ps) == "nil"

\* The checks on a Contact header's wildcard: no parameters and no display
\* name.
WildcardContactError(uri, dn, ps) ==
    IF uri.wildcard /\ Len(ps) > 0 THEN "wildcard contact with parameters"
    ELSE IF uri.wildcard /\ dn # None
    THEN "wildcard contact with display name"
    ELSE "nil"

\* The loop of parseAddressHeader over the parsed addresses.
RECURSIVE AddressHeaderLoop(_, _, _, _)
AddressHeaderLoop(headerName, v, idx, headers) ==
    IF idx > Len(v.uris) THEN HdrResult(headers, "nil")
    ELSE
    LET dn == v.displayNames[idx]
        uri == v.uris[idx]
        ps == v.headerParams[idx]
        Add(h) == AddressHeaderLoop(headerName, v, idx + 1, Append(headers, h))
    IN  IF headerName \in ToNames
        THEN IF idx > 1 THEN HdrResult(<<>>, "multiple to")
             ELSE IF uri.wildcard THEN HdrResult(headers, "wildcard in to")
             ELSE Add(AddressHeader("To", dn, uri, ps))
        ELSE IF headerName \in FromNames
        THEN IF idx > 1 THEN HdrResult(<<>>, "multiple from")
             ELSE IF uri.wildcard THEN HdrResult(headers, "wildcard in from")
             ELSE Add(AddressHeader("From", dn, uri, ps))
        ELSE IF WildcardContactError(uri, dn, ps) # "nil"
        THEN HdrResult(headers, WildcardContactError(uri, dn, ps))
        ELSE Add(AddressHeader("Contact", dn, uri, ps))

parseAddressHeader(headerName, headerText) ==
    LET Values(v) ==
            IF v.err # "nil" THEN HdrResult(<<>>, v.err)
            ELSE AddressHeaderLoop(headerName, v, 1, <<>>)
    IN  IF headerName \notin (ToNames \cup FromNames \cup ContactNames)
        THEN HdrResult(<<>>, "nil")
        ELSE Values(ParseAddressValues(headerText))

\* SplitByWhitespace: st is [buffer, inString, result].
RECURSIVE SplitWsScan(_, _)
SplitWsScan(text, st) ==
    IF text = <<>>
    THEN IF st.buffer # <<>> THEN Append(st.result, st.buffer) ELSE st.result
    ELSE IF Head(text) \in abnfWs
    THEN SplitWsScan(Tail(text),
             [buffer |-> IF st.inString THEN <<>> ELSE st.buffer,
              inString |-> FALSE,
              result |-> IF st.inString THEN Append(st.result, st.buffer)
                         ELSE st.result])
    ELSE SplitWsScan(Tail(text),
             [st EXCEPT !.buffer = Append(@, Head(text)), !.inString = TRUE])

SplitByWhitespace(text) ==
    SplitWsScan(text, [buffer |-> <<>>, inString |-> TRUE, result |-> <<>>])

\* A limit of 2**32 - 1, all that fits the 32 bits of the conversion.
maxCseqWide == <<"4","2","9","4","9","6","7","2","9","5">>

\* maxCseq = 2147483647
maxCseq == <<"2","1","4","7","4","8","3","6","4","7">>

parseCSeq(headerName, headerText) ==
    LET parts == SplitByWhitespace(headerText)
        n == ParseUint(parts[1], 32)
        method == TrimSpace(parts[2])
    IN  IF Len(parts) # 2 THEN HdrResult(<<>>, "not two tokens")
        ELSE IF n.err # "nil" THEN HdrResult(<<>>, n.err)
        ELSE IF NumLess(maxCseq, n.val) THEN HdrResult(<<>>, "cseq too large")
        ELSE IF ContainsByte(method, ";") THEN HdrResult(<<>>, "semicolon")
        ELSE HdrResult(<<[kind |-> "CSeq", seqNo |-> n.val,
                          methodName |-> method]>>, "nil")

parseCallId(headerName, headerText) ==
    LET callId == TrimSpace(headerText)
    IN  IF \E i \in 1..Len(callId) : callId[i] \in abnfWs
        THEN HdrResult(<<>>, "whitespace")
        ELSE IF ContainsByte(callId, ";") THEN HdrResult(<<>>, "semicolon")
        ELSE IF Len(callId) = 0 THEN HdrResult(<<>>, "empty")
        ELSE HdrResult(<<[kind |-> "CallID", value |-> callId]>>, "nil")

\* Max-Forwards, Expires and Content-Length: the header is built even when
\* ParseUint fails, and returned beside the error.
NumericHeader(kind, headerText) ==
    LET n == ParseUint(TrimSpace(headerText), 32)
    IN  HdrResult(<<[kind |-> kind, value |-> n.val]>>, n.err)

parseMaxForwards(headerName, headerText) ==
    NumericHeader("MaxForwards", headerText)
parseExpires(headerName, headerText) == NumericHeader("Expires", headerText)
parseContentLength(headerName, headerText) ==
    NumericHeader("ContentLength", headerText)

OpaqueHeader(kind, headerText) ==
    HdrResult(<<[kind |-> kind, value |-> TrimSpace(headerText)]>>, "nil")

parseUserAgent(headerName, headerText) == OpaqueHeader("UserAgent", headerText)
parseContentType(headerName, headerText) ==
    OpaqueHeader("ContentType", headerText)
parseAccept(headerName, headerText) == OpaqueHeader("Accept", headerText)

ListHeader(kind, headerText) ==
    LET parts == Split(headerText, ",")
    IN  HdrResult(<<[kind |-> kind,
                     items |-> [i \in 1..Len(parts) |-> TrimSpace(parts[i])]]>>,
                  "nil")

parseAllow(headerName, headerText) == ListHeader("Allow", headerText)
parseRequire(headerName, headerText) == ListHeader("Require", headerText)
parseSupported(headerName, headerText) == ListHeader("Supported", headerText)

RouteLike(kind, headerText) ==
    LET Values(v) ==
            IF v.err # "nil" THEN HdrResult(<<>>, v.err)
            ELSE HdrResult(<<[kind |-> kind, addresses |-> v.uris]>>, "nil")
    IN  Values(ParseAddressValues(headerText))

parseRouteHeader(headerName, headerText) == RouteLike("Route", headerText)
parseRecordRouteHeader(headerName, headerText) ==
    RouteLike("RecordRoute", headerText)

\* One section of a Via value: [hop, err].  errIn is the error left by the
\* parameters of the section before, which the loop returns at its next
\* error test.
ViaSection(section, errIn) ==
    LET Fail(why) == [hop |-> <<>>, err |-> why, stop |-> TRUE]
        Hop(name, version, transport, hp, pp) ==
            IF hp.err # "nil" THEN Fail(hp.err)
            ELSE [hop |-> [protocolName |-> name, protocolVersion |-> version,
                           transport |-> transport, host |-> hp.host,
                           port |-> hp.port, params |-> pp.params],
                  err |-> pp.err, stop |-> FALSE]
        SentBy(name, version, transport, viaBody, paramsIdx) ==
            IF paramsIdx = -1
            THEN Hop(name, version, transport, ParseHostPort(viaBody),
                     [params |-> NewParams, consumed |-> 0, err |-> "nil"])
            ELSE Hop(name, version, transport,
                     ParseHostPort(Slice(viaBody, 0, paramsIdx)),
                     ParseParams(From(viaBody, paramsIdx), ";", ";", NUL,
                                 TRUE, TRUE))
        Transport(name, version, transport, viaBody) ==
            IF Len(name) = 0 THEN Fail("no protocol name")
            ELSE IF Len(version) = 0 THEN Fail("no version")
            ELSE IF Len(transport) = 0 THEN Fail("no transport")
            ELSE IF errIn # "nil" THEN Fail(errIn)
            ELSE SentBy(name, version, transport, viaBody,
                        IndexByte(viaBody, ";"))
        Fields(name, version, p2, sentByIdx) ==
            IF sentByIdx = 0 THEN Fail("no whitespace after transport")
            ELSE IF sentByIdx = 1 THEN Fail("empty transport field")
            ELSE Transport(name, version,
                           TrimSpace(Slice(p2, 0, sentByIdx - 1)),
                           From(p2, sentByIdx))
        Spaces(name, version, p2, initialSpaces) ==
            Fields(name, version, p2,
                   IndexAny(From(p2, initialSpaces), abnfWs)
                   + initialSpaces + 1)
        Third(name, version, p2) ==
            Spaces(name, version, p2, Len(p2) - Len(TrimLeftSet(p2, abnfWs)))
        Parts(parts) ==
            IF Len(parts) < 3 THEN Fail("too few parts")
            ELSE Third(TrimSpace(parts[1]), TrimSpace(parts[2]),
                       Join(SubSeq(parts, 3, Len(parts)), "/"))
    IN  Parts(Split(section, "/"))

RECURSIVE ViaLoop(_, _, _, _)
ViaLoop(sections, idx, via, err) ==
    LET Section(r) ==
            IF r.stop THEN HdrResult(<<>>, r.err)
            ELSE ViaLoop(sections, idx + 1, Append(via, r.hop), r.err)
    IN  IF idx > Len(sections)
        THEN HdrResult(<<[kind |-> "Via", hops |-> via]>>, err)
        ELSE Section(ViaSection(sections[idx], err))

\* A Via parser that stops after the first section.
parseViaHeaderFirst(headerName, headerText) ==
    ViaLoop(<<Split(headerText, ",")[1]>>, 1, <<>>, "nil")

\* parseViaHeader: the sections between commas, each a hop of one Via header.
parseViaHeader(headerName, headerText) ==
    ViaLoop(Split(headerText, ","), 1, <<>>, "nil")

\* Authorization / Proxy-Authorization: a parameter block.
parseAuthorization(headerName, headerText) ==
    LET pp == ParseParams(headerText, NUL, ",", NUL, TRUE, TRUE)
    IN  IF pp.err # "nil" THEN HdrResult(<<>>, pp.err)
        ELSE HdrResult(<<[kind |-> "Authorization", params |-> pp.params]>>,
                       "nil")

(***************************************************************************)
(* The header-parser registry and ParseHeader.                             *)
(***************************************************************************)
\* defaultHeaderParsers(): the keys as the map literal spells them.
defaultHeaderParsers ==
    { <<<<"t","o">>, "parseAddressHeader">>,
      <<<<"t">>, "parseAddressHeader">>,
      <<<<"f","r","o","m">>, "parseAddressHeader">>,
      <<<<"f">>, "parseAddressHeader">>,
      <<<<"c","o","n","t","a","c","t">>, "parseAddressHeader">>,
      <<<<"m">>, "parseAddressHeader">>,
      <<<<"C","a","l","l","-","I","D">>, "parseCallId">>,
      <<<<"c","s","e","q">>, "parseCSeq">>,
      <<<<"v","i","a">>, "parseViaHeader">>,
      <<<<"v">>, "parseViaHeader">>,
      <<<<"m","a","x","-","f","o","r","w","a","r","d","s">>, "parseMaxForwards">>,
      <<<<"c","o","n","t","e","n","t","-","l","e","n","g","t","h">>,
        "parseContentLength">>,
      <<<<"l">>, "parseContentLength">>,
      <<<<"e","x","p","i","r","e","s">>, "parseExpires">>,
      <<<<"u","s","e","r","-","a","g","e","n","t">>, "parseUserAgent">>,
      <<<<"a","l","l","o","w">>, "parseAllow">>,
      <<<<"c","o","n","t","e","n","t","-","t","y","p","e">>, "parseContentType">>,
      <<<<"a","c","c","e","p","t">>, "parseAccept">>,
      <<<<"c">>, "parseContentType">>,
      <<<<"r","e","q","u","i","r","e">>, "parseRequire">>,
      <<<<"s","u","p","p","o","r","t","e","d">>, "parseSupported">>,
      <<<<"r","o","u","t","e">>, "parseRouteHeader">>,
      <<<<"r","e","c","o","r","d","-","r","o","u","t","e">>,
        "parseRecordRouteHeader">>,
      <<<<"A","u","t","h","o","r","i","z","a","t","i","o","n">>,
        "parseAuthorization">>,
      <<<<"P","r","o","x","y","-","A","u","t","h","o","r","i","z","a","t","i","o","n">>,
        "parseAuthorization">> }

\* A registry is a set of <<key, parser>> pairs with one pair per key.
HasParser(reg, key) == \E e \in reg : e[1] = key
ParserOf(reg, key) == (CHOOSE e \in reg : e[1] = key)[2]

\* A registration under the name as it is given.
SetHeaderParserAsGiven(reg, headerName, headerParser) ==
    {e \in reg : e[1] # headerName} \cup {<<headerName, headerParser>>}

\* SetHeaderParser: the key is lower-cased, an earlier entry is replaced.
SetHeaderParser(reg, headerName, headerParser) ==
    {e \in reg : e[1] # ToLower(headerName)}
        \cup {<<ToLower(headerName), headerParser>>}

\* The registry NewParser builds: every default entry goes through
\* SetHeaderParser.
NewParserRegistry == {<<ToLower(e[1]), e[2]>> : e \in defaultHeaderParsers}

\* A call of the registered HeaderParser.
CallHeaderParser(parser, name, text) ==
    CASE parser = "parseAddressHeader" -> parseAddressHeader(name, text)
      [] parser = "parseCallId" -> parseCallId(name, text)
      [] parser = "parseCSeq" -> parseCSeq(name, text)
      [] parser = "parseViaHeader" -> parseViaHeader(name, text)
      [] parser = "parseMaxForwards" -> parseMaxForwards(name, text)
      [] parser = "parseContentLength" -> parseContentLength(name, text)
      [] parser = "parseExpires" -> parseExpires(name, text)
      [] parser = "parseUserAgent" -> parseUserAgent(name, text)
      [] parser = "parseAllow" -> parseAllow(name, text)
      [] parser = "parseContentType" -> parseContentType(name, text)
      [] parser = "parseAccept" -> parseAccept(name, text)
      [] parser = "parseRequire" -> parseRequire(name, text)
      [] parser = "parseSupported" -> parseSupported(name, text)
      [] parser = "parseRouteHeader" -> parseRouteHeader(name, text)
      [] parser = "parseRecordRouteHeader" -> parseRecordRouteHeader(name, text)
      [] parser = "parseAuthorization" -> parseAuthorization(name, text)
      [] OTHER -> HdrResult(<<[kind |-> "Custom", parser |-> parser,
                               name |-> name, contents |-> text]>>, "nil")

\* A generic header named in lower case.
GenericHeaderLower(fieldName, fieldText) ==
    [kind |-> "Generic", name |-> ToLower(fieldName), contents |-> fieldText]

\* GenericHeader{HeaderName: fieldName, Contents: fieldText}
GenericHeader(fieldName, fieldText) ==
    [kind |-> "Generic", name |-> fieldName, contents |-> fieldText]

\* ParseHeader(headerText, p) with headerParsers the registry it looks in
\* (p.headerParsers, or defaultHeaderParsers() when p is nil).
ParseHeader(headerText, headerParsers) ==
    LET colonIdx == IndexByte(headerText, ":")
        fieldName == TrimSpace(Slice(headerText, 0, colonIdx))
        lowerFieldName == ToLower(fieldName)
        fieldText == TrimSpace(From(headerText, colonIdx + 1))
    IN  IF colonIdx = -1 THEN HdrResult(<<>>, "no colon")
        ELSE IF HasParser(headerParsers, lowerFieldName)
        THEN CallHeaderParser(ParserOf(headerParsers, lowerFieldName),
                              lowerFieldName, fieldText)
        ELSE HdrResult(<<GenericHeader(fieldName, fieldText)>>, "nil")

(***************************************************************************)
(* Start lines and messages.                                               *)
(***************************************************************************)
SIP == <<"S", "I", "P">>

isRequest(startLine) ==
    LET parts == Split(startLine, SP)
    IN  /\ CountByte(startLine, SP) = 2
        /\ Len(parts) >= 3
        /\ Len(parts[3]) >= 3
        /\ ToUpper(Slice(parts[3], 0, 3)) = SIP

isResponse(startLine) ==
    LET parts == Split(startLine, SP)
    IN  /\ CountByte(startLine, SP) >= 2
        /\ Len(parts) >= 3
        /\ Len(parts[1]) >= 3
        /\ ToUpper(Slice(parts[1], 0, 3)) = SIP

\* ParseRequestLine: [method, recipient, sipVersion, err]
ParseRequestLine(requestLine) ==
    LET Line(parts, u) ==
            [method |-> ToUpper(parts[1]), recipient |-> u.uri,
             sipVersion |-> parts[3],
             err |-> IF u.err = "nil" /\ u.uri.wildcard
                     THEN "wildcard in request line" ELSE u.err]
        Parts(parts) ==
            IF Len(parts) # 3
            THEN [method |-> <<>>, recipient |-> NoUri, sipVersion |-> <<>>,
                  err |-> "not two spaces"]
            ELSE Line(parts, ParseUri(parts[2]))
    IN  Parts(Split(requestLine, SP))

\* ParseStatusLine: [sipVersion, statusCode, reasonPhrase, err]
ParseStatusLine(statusLine) ==
    LET parts == Split(statusLine, SP)
        code == ParseUint(parts[2], 16)
    IN  IF Len(parts) < 3
        THEN [sipVersion |-> <<>>, statusCode |-> <<"0">>,
              reasonPhrase |-> <<>>, err |-> "too few spaces"]
        ELSE [sipVersion |-> parts[1], statusCode |-> code.val,
              reasonPhrase |-> Join(SubSeq(parts, 3, Len(parts)), SP),
              err |-> code.err]

NoMessage ==
    [kind |-> "none", method |-> <<>>, recipient |-> NoUri,
     sipVersion |-> <<>>, statusCode |-> <<"0">>, reason |-> <<>>,
     headers |-> <<>>, body |-> <<>>]

\* recipient.Domain(): the host[:port] of a URI.
Domain(uri) == [host |-> uri.host, port |-> uri.port]

\* CreateSimpleRequest(method, domain): a request addressed to the domain.
CreateSimpleRequest(method, domain) ==
    [NoMessage EXCEPT !.kind = "request", !.method = method,
                      !.recipient = [NoUri EXCEPT !.host = domain.host,
                                                  !.port = domain.port]]

\* NewResponse("", sipVersion, statusCode, reason, []Header{}, "")
NewResponse(sipVersion, statusCode, reason) ==
    [NoMessage EXCEPT !.kind = "response", !.sipVersion = sipVersion,
                      !.statusCode = statusCode, !.reason = reason]

\* The request the framing loop builds from a parsed request line.
RequestFromLine(r) ==
    [CreateSimpleRequest(r.method, Domain(r.recipient))
        EXCEPT !.sipVersion = r.sipVersion]

\* The start-line step of parser.parse: [msg, termErr].
ParseStartLine(startLine) ==
    LET Request(rq) ==
            IF rq.err = "nil"
            THEN [msg |-> RequestFromLine(rq), termErr |-> "nil"]
            ELSE [msg |-> NoMessage, termErr |-> rq.err]
        Response(rs) ==
            IF rs.err = "nil"
            THEN [msg |-> NewResponse(rs.sipVersion, rs.statusCode,
                                      rs.reasonPhrase),
                  termErr |-> "nil"]
            ELSE [msg |-> NoMessage, termErr |-> rs.err]
    IN  IF isRequest(startLine) THEN Request(ParseRequestLine(startLine))
        ELSE IF isResponse(startLine)
        THEN Response(ParseStatusLine(startLine))
        ELSE [msg |-> NoMessage, termErr |-> "not a SIP message"]

\* Header.Name() of a typed header, lower-cased, for msg.GetHeaders.
HeaderNameLower(h) ==
    CASE h.kind = "ContentLength" ->
            <<"c","o","n","t","e","n","t","-","l","e","n","g","t","h">>
      [] h.kind = "Generic" -> ToLower(h.name)
      [] h.kind = "Custom" -> h.name
      [] OTHER -> <<h.kind>>

\* msg.GetHeaders("Content-Length")
ContentLengthHeaders(msg) ==
    SelectSeq(msg.headers,
        LAMBDA h : HeaderNameLower(h) =
            <<"c","o","n","t","e","n","t","-","l","e","n","g","t","h">>)

\* A body length of 0 for data without a CRLFCRLF.
getBodyLengthZero(data) ==
    LET idx == IndexStr(data, CRLF \o CRLF)
    IN  IF idx = -1 THEN 0 ELSE Len(data) - (idx + 4)

\* getBodyLength(data): -1 without a CRLFCRLF.
getBodyLength(data) ==
    LET idx == IndexStr(data, CRLF \o CRLF)
    IN  IF idx = -1 THEN -1 ELSE Len(data) - (idx + 4)

(***************************************************************************)
(* The managed input buffer (parserBuffer) and the body-length queue       *)
(* (utils.ElasticChan), as the parser uses them.                           *)
(***************************************************************************)
\* newParserBuffer()
newParserBuffer == [data |-> <<>>, closed |-> FALSE]

\* NextLine: a read returns an error once the buffer is stopped, the next
\* CRLF-terminated line when one is complete, and blocks otherwise.
LineReady(buf) == buf.closed \/ IndexStr(buf.data, CRLF) # -1
NextLine(buf) ==
    LET idx == IndexStr(buf.data, CRLF)
    IN  IF buf.closed THEN [err |-> "closed", line |-> <<>>, buf |-> buf]
        ELSE [err |-> "nil", line |-> Slice(buf.data, 0, idx),
              buf |-> [buf EXCEPT !.data = From(buf.data, idx + 2)]]

\* NextChunk(n)
ChunkReady(buf, n) == buf.closed \/ Len(buf.data) >= n
NextChunk(buf, n) ==
    IF buf.closed THEN [err |-> "closed", chunk |-> <<>>, buf |-> buf]
    ELSE [err |-> "nil", chunk |-> Slice(buf.data, 0, n),
          buf |-> [buf EXCEPT !.data = From(buf.data, n)]]

\* parserBuffer.Write
BufferWrite(buf, data) ==
    IF buf.closed THEN [err |-> "write after stop", buf |-> buf]
    ELSE [err |-> "nil", buf |-> [buf EXCEPT !.data = @ \o data]]

\* ElasticChan: Init / Run, a send on In, a receive on Out, Stop.
NewElasticChan == [queue |-> <<>>, closed |-> FALSE]
ChanPush(ch, pair) == [ch EXCEPT !.queue = Append(@, pair)]
ChanReady(ch) == ch.queue # <<>> \/ ch.closed
ChanStop(ch) == [ch EXCEPT !.closed = TRUE]

(***************************************************************************)
(* Bounds of the model and the inputs it is run on.                        *)
(***************************************************************************)
\* How many messages a run of Write calls alone writes.
MaxMsgs == 2
\* How many messages a run writes in which Stop and Reset are called too,
\* and how often they are called.
MaxOpMsgs == 1
\* The longest piece of a stream one Write carries, short of all the rest.
MaxChunk == 2
MaxStops == 2
MaxResets == 1
MaxTasks == MaxResets + 1
Tasks == 1..MaxTasks

(***************************************************************************)
(* The messages the model writes.                                          *)
(***************************************************************************)
\* A sip:u@h;p SIP\r\nl:2\r\n\r\nab
MsgBody ==
    <<"A"," ","s","i","p",":","u","@","h",";","p"," ","S","I","P",CR,LF,"l",
      ":","2",CR,LF,CR,LF,"a","b">>

\* SIP 200 OK\r\nl: 0\r\n\r\n
MsgResp ==
    <<"S","I","P"," ","2","0","0"," ","O","K",CR,LF,"l",":"," ","0",CR,LF,
      CR,LF>>

\* B sip:h SIP\r\nS:a\r\n b\r\nCSeq:x\r\nl:0\r\n\r\n
MsgCont ==
    <<"B"," ","s","i","p",":","h"," ","S","I","P",CR,LF,"S",":","a",CR,LF,
      " ","b",CR,LF,"C","S","e","q",":","x",CR,LF,"l",":","0",CR,LF,CR,LF>>

\* D sip:h SIP\r\nX:1\r\n\r\n
MsgNoCL ==
    <<"D"," ","s","i","p",":","h"," ","S","I","P",CR,LF,"X",":","1",CR,LF,
      CR,LF>>

\* E sip:h SIP\r\nl:0\r\nl:0\r\n\r\n
MsgDupCL ==
    <<"E"," ","s","i","p",":","h"," ","S","I","P",CR,LF,"l",":","0",CR,LF,
      "l",":","0",CR,LF,CR,LF>>

\* F sip:h SIP\r\nl:x\r\n\r\n
MsgBadCL ==
    <<"F"," ","s","i","p",":","h"," ","S","I","P",CR,LF,"l",":","x",CR,LF,
      CR,LF>>

\* G sip:h SIP\r\nm:sip:a, ,sip:b\r\nl:0\r\n\r\n
MsgPanic ==
    <<"G"," ","s","i","p",":","h"," ","S","I","P",CR,LF,"m",":","s","i","p",
      ":","a",","," ",",","s","i","p",":","b",CR,LF,"l",":","0",CR,LF,CR,
      LF>>

\* HI\r\nl:0\r\n\r\n
MsgBadStart ==
    <<"H","I",CR,LF,"l",":","0",CR,LF,CR,LF>>

Catalogue ==
    {MsgBody, MsgResp, MsgCont, MsgNoCL,
     MsgDupCL, MsgBadCL, MsgPanic, MsgBadStart}

RECURSIVE Flatten(_)
Flatten(msgs) == IF msgs = <<>> THEN <<>> ELSE Head(msgs) \o Flatten(Tail(msgs))

\* The sequences of 1..n catalogue messages.
Scripts(n) == UNION {[1..k -> Catalogue] : k \in 1..n}

(***************************************************************************)
(* The state of one parser and of the threads around it.                   *)
(***************************************************************************)
VARIABLES
    streamed,       \* p.streamed
    stopped,        \* p.stopped
    terminalErr,    \* p.terminalErr, "nil" when unset
    headerParsers,  \* p.headerParsers
    input,          \* p.input, the managed input buffer
    bodyLengths,    \* p.bodyLengths, the body-length queue
    done,           \* p.done: the channels made so far and the current one
    tasks,          \* the goroutines running parser.parse and their locals
    caller,         \* the thread calling Write, Stop and Reset
    script,         \* the messages the caller writes in this run
    feed,           \* what of the script is still to be written
    emitted,        \* what the sinks have received, in order
    crashed         \* a goroutine panicked: the process is gone

vars == <<streamed, stopped, terminalErr, headerParsers, input, bodyLengths,
          done, tasks, caller, script, feed, emitted, crashed>>

\* The locals of a framing task.  pc "none": not spawned.
NoTask ==
    [pc |-> "none", doneIdx |-> 0, msg |-> NoMessage, buffer |-> <<>>,
     headers |-> <<>>, contentLength |-> 0, lineLen |-> 0, skip |-> 0,
     termErr |-> "nil"]

\* go p.parse(streamed)
Spawned == [NoTask EXCEPT !.pc = "spawned"]

\* The state NewParser(output, errs, streamed) returns, and a caller about
\* to write the script s.
InitWith(mode, s) ==
    /\ streamed = mode
    /\ stopped = FALSE
    /\ terminalErr = "nil"
    /\ headerParsers = NewParserRegistry
    /\ input = newParserBuffer
    /\ bodyLengths = NewElasticChan
    /\ done = [cur |-> 1, closed |-> <<FALSE>>]
    /\ tasks = [t \in Tasks |-> IF t = 1 THEN Spawned ELSE NoTask]
    /\ caller = [pc |-> "idle", op |-> "none", n |-> 0, err |-> "nil",
                 stops |-> 0, resets |-> 0]
    /\ script = s
    /\ feed = IF mode THEN Flatten(s) ELSE s
    /\ emitted = <<>>
    /\ crashed = FALSE

Init == \E mode \in BOOLEAN : \E s \in Scripts(MaxOpMsgs) : InitWith(mode, s)

\* The same parser with a caller that only writes, a longer script.
InitWrite ==
    \E mode \in BOOLEAN : \E s \in Scripts(MaxMsgs) : InitWith(mode, s)

(***************************************************************************)
(* parser.Write                                                            *)
(***************************************************************************)
\* A Write that takes every parser for a datagram parser.
WritePushesLengthAlways(mode) == TRUE

\* Whether Write computes and queues a body length for this parser.
WritePushesLength(mode) == ~mode

\* A Write that stays silent on a stopped parser.
WriteWhenStoppedSilent(same) == same

\* if p.stopped { return 0, WriteError(...) }
WriteWhenStopped(same) == [same EXCEPT !.err = "WriteError"]

\* The result of Write(data): [n, err, input, bodyLengths, panic].
WriteOp(data) ==
    LET same == [n |-> 0, err |-> "nil", input |-> input,
                 bodyLengths |-> bodyLengths, panic |-> FALSE]
        bl == getBodyLength(data)
        pushed == IF WritePushesLength(streamed)
                  THEN ChanPush(bodyLengths, <<bl, Len(data)>>)
                  ELSE bodyLengths
        w == BufferWrite(input, data)
    IN  IF stopped THEN WriteWhenStopped(same)
        ELSE IF WritePushesLength(streamed) /\ bl = -1 THEN same
        ELSE IF WritePushesLength(streamed) /\ bodyLengths.closed
        THEN [same EXCEPT !.panic = TRUE]
        ELSE IF w.err # "nil"
        THEN [same EXCEPT !.err = "WriteError", !.bodyLengths = pushed]
        ELSE [n |-> Len(data), err |-> "nil", input |-> w.buf,
              bodyLengths |-> pushed, panic |-> FALSE]

\* The data of the caller's next Write: in datagram mode the next message,
\* in stream mode a piece of what is left, of up to MaxChunk bytes or all
\* of it.
NextData ==
    IF streamed
    THEN {Slice(feed, 0, k) :
            k \in (1..MinOf({MaxChunk, Len(feed)})) \cup {Len(feed)}}
    ELSE {Head(feed)}

\* The caller's call Write(data).
WriteData(data) ==
    /\ ~crashed /\ caller.pc = "idle" /\ feed # <<>>
    /\ LET r == WriteOp(data)
       IN  /\ input' = r.input
           /\ bodyLengths' = r.bodyLengths
           /\ crashed' = r.panic
           /\ caller' = [caller EXCEPT !.op = "Write", !.n = r.n,
                                       !.err = r.err]
           /\ feed' = IF streamed THEN From(feed, Len(data)) ELSE Tail(feed)
    /\ UNCHANGED <<streamed, stopped, terminalErr, headerParsers, done,
                   tasks, script, emitted>>

Write == feed # <<>> /\ \E data \in NextData : WriteData(data)

(***************************************************************************)
(* parser.Stop and parser.Reset                                            *)
(***************************************************************************)
\* Stop up to its wait on p.done.
StopCall ==
    /\ ~crashed /\ caller.pc = "idle" /\ caller.stops < MaxStops
    /\ stopped' = TRUE
    /\ input' = [input EXCEPT !.closed = TRUE]
    /\ bodyLengths' = IF ~streamed THEN ChanStop(bodyLengths) ELSE bodyLengths
    /\ caller' = [caller EXCEPT !.pc = "stopWait", !.op = "Stop",
                                !.stops = @ + 1]
    /\ UNCHANGED <<streamed, terminalErr, headerParsers, done, tasks, script,
                   feed, emitted, crashed>>

\* <-p.done
StopReturn ==
    /\ ~crashed /\ caller.pc = "stopWait"
    /\ done.closed[done.cur]
    /\ caller' = [caller EXCEPT !.pc = "idle"]
    /\ UNCHANGED <<streamed, stopped, terminalErr, headerParsers, input,
                   bodyLengths, done, tasks, script, feed, emitted, crashed>>

Reset ==
    /\ ~crashed /\ caller.pc = "idle" /\ caller.resets < MaxResets
    /\ done' = [cur |-> Len(done.closed) + 1,
                closed |-> Append(done.closed, FALSE)]
    /\ stopped' = FALSE
    /\ terminalErr' = "nil"
    /\ tasks' = [tasks EXCEPT ![caller.resets + 2] = Spawned]
    /\ caller' = [caller EXCEPT !.op = "Reset", !.resets = @ + 1]
    /\ UNCHANGED <<streamed, headerParsers, input, bodyLengths, script, feed,
                   emitted, crashed>>

(***************************************************************************)
(* parser.parse, one action per point where the goroutine can block.       *)
(***************************************************************************)
\* defer close(p.done): the goroutine reads p.done when it starts to run.
TaskStart(t) ==
    /\ ~crashed /\ tasks[t].pc = "spawned"
    /\ tasks' = [tasks EXCEPT ![t].pc = "startLine", ![t].doneIdx = done.cur]
    /\ UNCHANGED <<streamed, stopped, terminalErr, headerParsers, input,
                   bodyLengths, done, caller, script, feed, emitted, crashed>>

\* The locals after the start line was read.
StartLineStep(loc, startLine) ==
    LET Parsed(r) ==
            IF r.termErr = "nil"
            THEN [loc EXCEPT !.pc = "headers", !.msg = r.msg,
                             !.buffer = <<>>, !.headers = <<>>]
            ELSE [loc EXCEPT !.pc = "sendStartErr",
                             !.termErr = "InvalidStartLine",
                             !.lineLen = Len(startLine)]
    IN  Parsed(ParseStartLine(startLine))

\* startLine, err := p.input.NextLine(); the loop ends on an error and the
\* deferred close(p.done) runs.
ReadStartLine(t) ==
    /\ ~crashed /\ tasks[t].pc = "startLine" /\ LineReady(input)
    /\ \E r \in {NextLine(input)} :
        IF r.err # "nil"
        THEN /\ tasks' = [tasks EXCEPT ![t].pc = "exited"]
             /\ IF done.closed[tasks[t].doneIdx]
                THEN crashed' = TRUE /\ done' = done
                ELSE /\ crashed' = FALSE
                     /\ done' = [done EXCEPT !.closed[tasks[t].doneIdx] = TRUE]
             /\ UNCHANGED <<input, terminalErr>>
        ELSE \E loc \in {StartLineStep(tasks[t], r.line)} :
             /\ tasks' = [tasks EXCEPT ![t] = loc]
             /\ input' = r.buf
             /\ terminalErr' = IF loc.termErr # "nil" THEN loc.termErr
                               ELSE terminalErr
             /\ UNCHANGED <<done, crashed>>
    /\ UNCHANGED <<streamed, stopped, headerParsers, bodyLengths, caller,
                   script, feed, emitted>>

\* An error the errs sink receives.
ErrEvent(kind) == [sink |-> "errs", err |-> kind, msg |-> NoMessage]
\* A message the output sink receives.
MsgEvent(m) == [sink |-> "output", err |-> "nil", msg |-> m]

\* Emit with the newest event put first.
EmitNewestFirst(received, event) == <<event>> \o received

\* What the sinks have received once a send was taken: sends are taken in
\* the order the loop makes them.
Emit(received, event) == Append(received, event)

\* Where the loop goes once the errs sink took the start-line error.
AfterStartErr(mode) == IF mode THEN "startLine" ELSE "skipPop"

\* p.errs <- termErr for an invalid start line: the consumer receives it.
RecvStartErr(t) ==
    /\ ~crashed /\ tasks[t].pc = "sendStartErr"
    /\ emitted' = Emit(emitted, ErrEvent(tasks[t].termErr))
    /\ tasks' = [tasks EXCEPT ![t].pc = AfterStartErr(streamed),
                              ![t].termErr = "nil"]
    /\ UNCHANGED <<streamed, stopped, terminalErr, headerParsers, input,
                   bodyLengths, done, caller, script, feed, crashed>>

\* A skip of the whole datagram's length, the start line counted twice.
SkipCountWhole(pair, lineLen) == pair[2]

\* skip := slice[1] - len(startLine) - 2: what is left of the datagram
\* after its start line and the CRLF.
SkipCount(pair, lineLen) == pair[2] - lineLen - 2

\* slice := (<-p.bodyLengths.Out).([]int)
\* A receive on the stopped, drained queue yields nil and the type
\* assertion panics.

SkipPop(t) ==
    /\ ~crashed /\ tasks[t].pc = "skipPop" /\ ChanReady(bodyLengths)
    /\ IF bodyLengths.queue = <<>>
       THEN crashed' = TRUE /\ UNCHANGED <<tasks, bodyLengths>>
       ELSE /\ tasks' = [tasks EXCEPT
                ![t].pc = "skipChunk",
                ![t].skip = SkipCount(Head(bodyLengths.queue),
                                      tasks[t].lineLen)]
            /\ bodyLengths' = [bodyLengths EXCEPT !.queue = Tail(@)]
            /\ crashed' = FALSE
    /\ UNCHANGED <<streamed, stopped, terminalErr, headerParsers, input, done,
                   caller, script, feed, emitted>>

\* p.input.NextChunk(skip); an error is logged and the loop continues.  A
\* negative length panics in make([]byte, n).
SkipChunk(t) ==
    /\ ~crashed /\ tasks[t].pc = "skipChunk"
    /\ tasks[t].skip < 0 \/ ChunkReady(input, tasks[t].skip)
    /\ IF tasks[t].skip < 0
       THEN crashed' = TRUE /\ UNCHANGED <<tasks, input>>
       ELSE /\ input' = NextChunk(input, tasks[t].skip).buf
            /\ tasks' = [tasks EXCEPT ![t].pc = "startLine"]
            /\ crashed' = FALSE
    /\ UNCHANGED <<streamed, stopped, terminalErr, headerParsers, bodyLengths,
                   done, caller, script, feed, emitted>>

\* flushBuffer(): parse the buffered logical header; a header that fails
\* is skipped.  A panic inside ParseHeader ends the process.
FlushBuffer(loc, reg) ==
    LET Parsed(r) ==
            IF r.err = "panic" THEN [loc EXCEPT !.pc = "panic"]
            ELSE IF r.err = "nil"
            THEN [loc EXCEPT !.headers = @ \o r.headers, !.buffer = <<>>]
            ELSE [loc EXCEPT !.buffer = <<>>]
    IN  IF loc.buffer = <<>> THEN loc
        ELSE Parsed(ParseHeader(loc.buffer, reg))

\* msg.AddHeader for every parsed header, when the header loop is left.
StoreHeaders(loc) ==
    IF loc.pc = "panic" THEN loc
    ELSE [loc EXCEPT !.pc = "bodyLen", !.msg.headers = loc.headers]

\* After the flush: an empty line ends the header section, any other line
\* starts the next logical header.
AfterFlush(flushed, line) ==
    IF Len(line) = 0 THEN StoreHeaders(flushed)
    ELSE IF flushed.pc = "panic" THEN flushed
    ELSE [flushed EXCEPT !.buffer = line]

\* One line of the header section.
HeaderLineStep(loc, line, reg) ==
    IF Len(line) = 0 \/ line[1] \notin abnfWs
    THEN AfterFlush(FlushBuffer(loc, reg), line)
    ELSE IF Len(loc.buffer) > 0
    THEN [loc EXCEPT !.buffer = @ \o <<SP>> \o line]
    ELSE loc

ReadHeaderLine(t) ==
    /\ ~crashed /\ tasks[t].pc = "headers" /\ LineReady(input)
    /\ \E r \in {NextLine(input)} :
        \E loc \in {IF r.err # "nil" THEN StoreHeaders(tasks[t])
                    ELSE HeaderLineStep(tasks[t], r.line, headerParsers)} :
            /\ input' = r.buf
            /\ crashed' = (loc.pc = "panic")
            /\ tasks' = [tasks EXCEPT ![t] = loc]
    /\ UNCHANGED <<streamed, stopped, terminalErr, headerParsers, bodyLengths,
                   done, caller, script, feed, emitted>>

\* A length check that takes the first of several Content-Length headers.
StreamLengthFirst(loc) ==
    LET cl == ContentLengthHeaders(loc.msg)
    IN  IF Len(cl) = 0
        THEN [loc EXCEPT !.pc = "sendErr", !.termErr = "MalformedMessage"]
        ELSE [loc EXCEPT !.pc = "body", !.contentLength = ToInt(cl[1].value)]

\* The body length in stream mode: exactly one Content-Length header, or
\* a MalformedMessageError.
StreamLength(loc) ==
    LET cl == ContentLengthHeaders(loc.msg)
    IN  IF Len(cl) # 1
        THEN [loc EXCEPT !.pc = "sendErr", !.termErr = "MalformedMessage"]
        ELSE [loc EXCEPT !.pc = "body", !.contentLength = ToInt(cl[1].value)]

\* A body length taken from slice[1], the length of the whole datagram.
DatagramLengthWhole(loc, pair) ==
    [loc EXCEPT !.pc = "body", !.contentLength = pair[2]]

\* The body length in datagram mode: slice[0] of the pair Write queued.
DatagramLength(loc, pair) ==
    [loc EXCEPT !.pc = "body", !.contentLength = pair[1]]

DetermineLength(t) ==
    /\ ~crashed /\ tasks[t].pc = "bodyLen"
    /\ streamed \/ ChanReady(bodyLengths)
    /\ IF streamed
       THEN /\ tasks' = [tasks EXCEPT ![t] = StreamLength(tasks[t])]
            /\ terminalErr' = IF StreamLength(tasks[t]).termErr # "nil"
                              THEN StreamLength(tasks[t]).termErr
                              ELSE terminalErr
            /\ UNCHANGED <<bodyLengths, crashed>>
       ELSE IF bodyLengths.queue = <<>>
       THEN crashed' = TRUE /\ UNCHANGED <<tasks, bodyLengths, terminalErr>>
       ELSE /\ tasks' = [tasks EXCEPT
                ![t] = DatagramLength(tasks[t], Head(bodyLengths.queue))]
            /\ bodyLengths' = [bodyLengths EXCEPT !.queue = Tail(@)]
            /\ UNCHANGED <<terminalErr, crashed>>
    /\ UNCHANGED <<streamed, stopped, headerParsers, input, done, caller,
                   script, feed, emitted>>

\* A body step that attaches the body whatever it holds.
BodyStepAlways(loc, body) ==
    [loc EXCEPT !.pc = "sendOut", !.msg.body = body]

\* The locals after the body was read: msg.SetBody(body, false) unless the
\* body is all whitespace.
BodyStep(loc, body) ==
    [loc EXCEPT !.pc = "sendOut",
                !.msg.body = IF TrimSpace(body) # <<>> THEN body ELSE @]

\* body, err := p.input.NextChunk(contentLength)
ReadBody(t) ==
    /\ ~crashed /\ tasks[t].pc = "body"
    /\ ChunkReady(input, tasks[t].contentLength)
    /\ LET r == NextChunk(input, tasks[t].contentLength)
       IN  IF r.err # "nil"
           THEN /\ tasks' = [tasks EXCEPT ![t].pc = "sendErr",
                                          ![t].termErr = "BrokenMessage"]
                /\ terminalErr' = "BrokenMessage"
                /\ UNCHANGED input
           ELSE /\ tasks' = [tasks EXCEPT ![t] = BodyStep(tasks[t], r.chunk)]
                /\ input' = r.buf
                /\ UNCHANGED terminalErr
    /\ UNCHANGED <<streamed, stopped, headerParsers, bodyLengths, done, caller,
                   script, feed, emitted, crashed>>

\* p.errs <- termErr (MalformedMessage, BrokenMessage), then continue.
RecvErr(t) ==
    /\ ~crashed /\ tasks[t].pc = "sendErr"
    /\ emitted' = Emit(emitted, ErrEvent(tasks[t].termErr))
    /\ tasks' = [tasks EXCEPT ![t].pc = "startLine", ![t].termErr = "nil"]
    /\ UNCHANGED <<streamed, stopped, terminalErr, headerParsers, input,
                   bodyLengths, done, caller, script, feed, crashed>>

\* p.output <- msg
RecvOutput(t) ==
    /\ ~crashed /\ tasks[t].pc = "sendOut"
    /\ emitted' = Emit(emitted, MsgEvent(tasks[t].msg))
    /\ tasks' = [tasks EXCEPT ![t].pc = "startLine"]
    /\ UNCHANGED <<streamed, stopped, terminalErr, headerParsers, input,
                   bodyLengths, done, caller, script, feed, crashed>>

\* A step of a framing goroutine that needs nobody else.
LoopStep(t) ==
    \/ TaskStart(t)
    \/ ReadStartLine(t)
    \/ SkipPop(t)
    \/ SkipChunk(t)
    \/ ReadHeaderLine(t)
    \/ DetermineLength(t)
    \/ ReadBody(t)

\* A sink's consumer receiving what the loop sends.
Deliver(t) == RecvStartErr(t) \/ RecvErr(t) \/ RecvOutput(t)

Next ==
    \/ Write
    \/ StopCall
    \/ StopReturn
    \/ Reset
    \/ \E t \in Tasks : LoopStep(t)
    \/ \E t \in Tasks : Deliver(t)

Spec == Init /\ [][Next]_vars

\* A caller that writes and never stops or resets the parser.
NextWrite ==
    \/ Write
    \/ \E t \in Tasks : LoopStep(t)
    \/ \E t \in Tasks : Deliver(t)

SpecWrite == InitWrite /\ [][NextWrite]_vars

\* A caller that writes and stops the parser.  The goroutines are scheduled
\* fairly, so the loop takes every step it can take alone and Stop returns
\* once done is closed; whether a sink's consumer receives is up to the
\* application.
NextStop ==
    \/ Write
    \/ StopCall
    \/ StopReturn
    \/ \E t \in Tasks : LoopStep(t)
    \/ \E t \in Tasks : Deliver(t)

SpecStop ==
    /\ Init
    /\ [][NextStop]_vars
    /\ WF_vars(\E t \in Tasks : LoopStep(t))
    /\ WF_vars(StopReturn)

\* The loop waits in a read: for a line, a chunk or a body-length pair that
\* is not there yet.  A goroutine that was never started or has returned
\* waits for nothing.
LoopWaits(t) ==
    \/ tasks[t].pc \in {"none", "exited"}
    \/ tasks[t].pc \in {"startLine", "headers"} /\ ~LineReady(input)
    \/ tasks[t].pc = "body" /\ ~ChunkReady(input, tasks[t].contentLength)
    \/ /\ tasks[t].pc = "skipChunk" /\ tasks[t].skip >= 0
       /\ ~ChunkReady(input, tasks[t].skip)
    \/ tasks[t].pc = "skipPop" /\ ~ChanReady(bodyLengths)
    \/ tasks[t].pc = "bodyLen" /\ ~streamed /\ ~ChanReady(bodyLengths)

\* How many bytes of the stream are written, and how many are left of the
\* message the next byte belongs to.
BytesWritten == Len(Flatten(script)) - Len(feed)
MessageEnds == {Len(Flatten(SubSeq(script, 1, i))) : i \in DOMAIN script}
RestOfMessage ==
    MinOf({e \in MessageEnds : e > BytesWritten}) - BytesWritten

\* The data of a Write that carries bytes of one message only.
PieceData ==
    IF streamed
    THEN {Slice(feed, 0, k) :
            k \in (1..MinOf({MaxChunk, RestOfMessage})) \cup {RestOfMessage}}
    ELSE {Head(feed)}

\* A caller that writes the next piece of a message once the parser has
\* taken all that was written before and the sinks have received all that
\* the loop had for them.
WriteInTurn ==
    /\ feed # <<>>
    /\ \A t \in Tasks : LoopWaits(t)
    /\ \E data \in PieceData : WriteData(data)

NextInTurn ==
    \/ WriteInTurn
    \/ \E t \in Tasks : LoopStep(t)
    \/ \E t \in Tasks : Deliver(t)

SpecInTurn == InitWrite /\ [][NextInTurn]_vars

(***************************************************************************)
(* The framing loop run alone: parser.parse on input that is all there     *)
(* before the loop starts, every send taken at once.  A run is             *)
(* [loc, input, lens, out]; it ends where the loop blocks or panics.       *)
(***************************************************************************)
RECURSIVE RunLoop(_, _, _)
RunLoop(mode, reg, run) ==
    CASE run.loc.pc = "startLine" ->
            IF ~LineReady(run.input) THEN run
            ELSE RunLoop(mode, reg,
                    [run EXCEPT
                        !.loc = StartLineStep(@, NextLine(run.input).line),
                        !.input = NextLine(@).buf])
      [] run.loc.pc = "sendStartErr" ->
            RunLoop(mode, reg,
                [run EXCEPT !.out = Emit(@, ErrEvent(run.loc.termErr)),
                            !.loc.pc = AfterStartErr(mode),
                            !.loc.termErr = "nil"])
      [] run.loc.pc = "skipPop" ->
            IF run.lens = <<>> THEN run
            ELSE RunLoop(mode, reg,
                    [run EXCEPT !.loc.pc = "skipChunk",
                                !.loc.skip = SkipCount(Head(run.lens),
                                                       run.loc.lineLen),
                                !.lens = Tail(@)])
      [] run.loc.pc = "skipChunk" ->
            IF run.loc.skip < 0 THEN [run EXCEPT !.loc.pc = "panic"]
            ELSE IF ~ChunkReady(run.input, run.loc.skip) THEN run
            ELSE RunLoop(mode, reg,
                    [run EXCEPT !.loc.pc = "startLine",
                                !.input = NextChunk(@, run.loc.skip).buf])
      [] run.loc.pc = "headers" ->
            IF ~LineReady(run.input) THEN run
            ELSE RunLoop(mode, reg,
                    [run EXCEPT
                        !.loc = HeaderLineStep(@, NextLine(run.input).line,
                                               reg),
                        !.input = NextLine(@).buf])
      [] run.loc.pc = "bodyLen" ->
            IF mode
            THEN RunLoop(mode, reg, [run EXCEPT !.loc = StreamLength(@)])
            ELSE IF run.lens = <<>> THEN run
            ELSE RunLoop(mode, reg,
                    [run EXCEPT !.loc = DatagramLength(@, Head(run.lens)),
                                !.lens = Tail(@)])
      [] run.loc.pc = "body" ->
            IF ~ChunkReady(run.input, run.loc.contentLength) THEN run
            ELSE RunLoop(mode, reg,
                    [run EXCEPT
                        !.loc = BodyStep(@, NextChunk(run.input,
                                             run.loc.contentLength).chunk),
                        !.input = NextChunk(@, run.loc.contentLength).buf])
      [] run.loc.pc = "sendErr" ->
            RunLoop(mode, reg,
                [run EXCEPT !.out = Emit(@, ErrEvent(run.loc.termErr)),
                            !.loc.pc = "startLine", !.loc.termErr = "nil"])
      [] run.loc.pc = "sendOut" ->
            RunLoop(mode, reg,
                [run EXCEPT !.out = Emit(@, MsgEvent(run.loc.msg)),
                            !.loc.pc = "startLine"])
      [] OTHER -> run

\* The body-length pairs Write queues for a script of datagrams.
LengthPairs(s) == [i \in 1..Len(s) |-> <<getBodyLength(s[i]), Len(s[i])>>]

\* What the sinks receive when the loop runs alone on the script s, written
\* in full by a fresh parser in the given mode.
RunAlone(mode, s) ==
    RunLoop(mode, NewParserRegistry,
            [loc |-> [Spawned EXCEPT !.pc = "startLine"],
             input |-> [newParserBuffer EXCEPT !.data = Flatten(s)],
             lens |-> IF mode THEN <<>> ELSE LengthPairs(s),
             out |-> <<>>])

\* RunAlone, tabulated over the scripts of the model.
RunTable ==
    [mode \in BOOLEAN, s \in Scripts(MaxMsgs) |-> RunAlone(mode, s)]

Expected(mode, s) == RunTable[mode, s].out

(***************************************************************************)
(* Properties.                                                             *)
(***************************************************************************)
RECURSIVE IsSubsequence(_, _)
IsSubsequence(a, b) ==
    IF a = <<>> THEN TRUE
    ELSE IF b = <<>> THEN FALSE
    ELSE IF Head(a) = Head(b) THEN IsSubsequence(Tail(a), Tail(b))
    ELSE IsSubsequence(a, Tail(b))

IsPrefix(a, b) == Len(a) <= Len(b) /\ SubSeq(b, 1, Len(a)) = a

\* The Messages the output sink received, in order.
Outputs(received) == SelectSeq(received, LAMBDA e : e.sink = "output")
\* The errors the errs sink received, in order.
Errors(received) == SelectSeq(received, LAMBDA e : e.sink = "errs")

\* The first token of a message text, and of a parsed message: the method of
\* a request, the version of a response.
TextToken(text) == Slice(text, 0, IndexByte(text, SP))
MsgToken(m) == IF m.kind = "request" THEN m.method ELSE m.sipVersion
TextTokens(s) == [i \in 1..Len(s) |-> TextToken(s[i])]
MsgTokens(events) == [i \in 1..Len(events) |-> MsgToken(events[i].msg)]

\* C1: the Messages on the output sink are in the order their bytes were
\* written: the emitted Messages, named by their start lines, are a
\* subsequence of the written messages in write order, so a message written
\* before another is never emitted after it.
C1_WriteOrder ==
    IsSubsequence(MsgTokens(Outputs(emitted)), TextTokens(script))

\* Two different messages were written and both emitted.
C1_Witness ==
    /\ Len(Outputs(emitted)) = 2
    /\ MsgToken(Outputs(emitted)[1].msg) # MsgToken(Outputs(emitted)[2].msg)

\* Nothing is left to happen unless somebody else acts: all of the script
\* is written (or the process is gone), the loop waits for input and no
\* send is waiting for its sink.
Settled == crashed \/ (feed = <<>> /\ \A t \in Tasks : LoopWaits(t))

\* How many Write calls the caller has made in datagram mode.
WritesMade == Len(script) - Len(feed)

\* C2: in datagram mode every Write of one message yields exactly one
\* Message or exactly one error, never both: the i-th event on the sinks
\* belongs to the i-th Write, there are never more events than writes, and
\* once nothing is left to happen there is one event per Write.
C2_OnePerWrite ==
    ~streamed =>
        /\ Len(emitted) <= WritesMade
        /\ \A i \in DOMAIN emitted :
            emitted[i].sink = "output" =>
                MsgToken(emitted[i].msg) = TextToken(script[i])
        /\ Settled => Len(emitted) = WritesMade

\* The parts of a message text: its start line, its header lines and its
\* body.
StartLineOf(text) == Slice(text, 0, IndexStr(text, CRLF))
BodyOf(text) == From(text, IndexStr(text, CRLF \o CRLF) + 4)
HeaderTextOf(text) ==
    Slice(text, IndexStr(text, CRLF) + 2, IndexStr(text, CRLF \o CRLF))

RECURSIVE HeaderLinesOf(_)
HeaderLinesOf(headerText) ==
    IF IndexStr(headerText, CRLF) = -1 THEN <<headerText>>
    ELSE <<Slice(headerText, 0, IndexStr(headerText, CRLF))>>
         \o HeaderLinesOf(From(headerText, IndexStr(headerText, CRLF) + 2))

\* The headers of a text whose header lines all parse, in their order.
RECURSIVE HeadersOfLines(_)
HeadersOfLines(lines) ==
    IF lines = <<>> THEN <<>>
    ELSE ParseHeader(Head(lines), NewParserRegistry).headers
         \o HeadersOfLines(Tail(lines))

\* The request a well-formed request text stands for: the method, the full
\* request-URI and the version of its start line, its headers and its body.
RequestOfText(text) ==
    [kind |-> "request",
     method |-> Split(StartLineOf(text), SP)[1],
     recipient |-> ParseUri(Split(StartLineOf(text), SP)[2]).uri,
     sipVersion |-> Split(StartLineOf(text), SP)[3],
     statusCode |-> <<"0">>, reason |-> <<>>,
     headers |-> HeadersOfLines(HeaderLinesOf(HeaderTextOf(text))),
     body |-> BodyOf(text)]

\* The well-formed requests among the messages written: in stream mode a
\* request needs its Content-Length.
WellFormedRequests(mode) == IF mode THEN {MsgBody} ELSE {MsgBody, MsgNoCL}

\* The written text an emitted message comes from.
SourceOf(m) == CHOOSE text \in Catalogue : TextToken(text) = MsgToken(m)

\* C3: a well-formed request written in full yields exactly one Message and
\* no error, and the Message has the method, the full request-URI (user
\* part and URI parameters included), the version, the headers in order and
\* the body of the text.
C3_RoundTrip ==
    /\ \A i \in DOMAIN emitted :
        (emitted[i].sink = "output"
            /\ SourceOf(emitted[i].msg) \in WellFormedRequests(streamed))
        => emitted[i].msg = RequestOfText(SourceOf(emitted[i].msg))
    /\ (Settled /\ \A i \in DOMAIN script :
                        script[i] \in WellFormedRequests(streamed))
        => /\ Len(Outputs(emitted)) = Len(script)
           /\ Errors(emitted) = <<>>

\* The catalogue's messages with exactly one valid Content-Length header.
OneLengthMessages == {MsgBody, MsgResp, MsgCont, MsgPanic}

\* C4: in stream mode, for a stream of messages with exactly one valid
\* Content-Length each, what the sinks receive does not depend on how the
\* stream is cut into Write calls: under every cut it is a prefix of what
\* the loop yields on the whole stream, and all of it once nothing is left
\* to happen.
C4_SplitInvariant ==
    (streamed /\ \A i \in DOMAIN script : script[i] \in OneLengthMessages)
    => /\ IsPrefix(emitted, Expected(TRUE, script))
       /\ Settled => emitted = Expected(TRUE, script)

\* Two such messages went through, the last Write carrying a single byte:
\* the stream was cut inside the CRLF or the body that ends it.
C4_Witness ==
    /\ streamed /\ Len(script) = 2
    /\ \A i \in DOMAIN script : script[i] \in OneLengthMessages
    /\ feed = <<>> /\ caller.n = 1
    /\ Len(Outputs(emitted)) = 2
    /\ emitted = Expected(TRUE, script)

\* The loop waits in a send: for a sink's consumer to receive.
LoopSends(t) == tasks[t].pc \in {"sendStartErr", "sendErr", "sendOut"}

\* C5: Stop returns whatever the loop is doing when it is called, a send to
\* a sink included: while Stop waits for done, done is closed already or a
\* framing goroutine can take its next step without anybody receiving from
\* a sink.
C5_StopReturns ==
    (caller.pc = "stopWait" /\ ~crashed)
    => \/ done.closed[done.cur]
       \/ \E t \in Tasks : ~LoopWaits(t) /\ ~LoopSends(t)

\* C6: once the parser is stopped and not reset since, a Write returns 0 and
\* a WriteError and leaves the input buffer and the body-length queue as
\* they are; another Stop finds done closed, so it does not block, and
\* changes nothing of the parser.
C6_AfterStop ==
    [][/\ (stopped /\ Write)
            => /\ caller'.n = 0 /\ caller'.err = "WriteError"
               /\ input' = input /\ bodyLengths' = bodyLengths
       /\ (stopped /\ StopCall)
            => /\ done.closed[done.cur]
               /\ UNCHANGED <<stopped, input, bodyLengths, done, tasks,
                              terminalErr, emitted>>]_vars

\* Stop was called twice and a Write after that was refused.
C6_Witness ==
    /\ stopped /\ caller.stops = 2 /\ caller.pc = "idle"
    /\ caller.op = "Write" /\ caller.err = "WriteError" /\ caller.n = 0

\* The length of the data of the Write step taken.
WrittenLen == IF streamed THEN Len(feed) - Len(feed') ELSE Len(Head(feed))

\* C7: Write returns 0 and an error whenever the terminal error is set, and
\* len(data) and no error in every other case.
C7_WriteResult ==
    [][Write => IF terminalErr # "nil"
                THEN caller'.n = 0 /\ caller'.err # "nil"
                ELSE caller'.n = WrittenLen /\ caller'.err = "nil"]_vars

\* C8: in stream mode a message without a Content-Length stops the parser for
\* good: when the caller writes in turn, so that all that follows that
\* message is written after its error was received, no Message is emitted.
C8_StopsForGood ==
    (streamed /\ Head(script) = MsgNoCL) => Outputs(emitted) = <<>>

\* C9: in stream mode, when the headers parsed for a message hold no or
\* several Content-Length headers, the loop reads nothing more for that
\* message and sends one MalformedMessage error, after which it is at the
\* next start line with the input untouched; and no Message is emitted whose
\* headers do not hold exactly one Content-Length.
C9_MalformedLength ==
    [][streamed =>
        /\ \A t \in Tasks :
            /\ (DetermineLength(t)
                    /\ Len(ContentLengthHeaders(tasks[t].msg)) # 1)
                => /\ tasks'[t].pc = "sendErr"
                   /\ tasks'[t].termErr = "MalformedMessage"
                   /\ input' = input /\ emitted' = emitted
            /\ (RecvErr(t) /\ tasks[t].termErr = "MalformedMessage")
                => /\ emitted' = Append(emitted, ErrEvent("MalformedMessage"))
                   /\ tasks'[t].pc = "startLine"
                   /\ input' = input
        /\ \A i \in DOMAIN emitted' :
            emitted'[i].sink = "output"
                => Len(ContentLengthHeaders(emitted'[i].msg)) = 1]_vars

\* A message with two Content-Length headers gave one error and nothing
\* else, and the message after it went through with its body.
C9_Witness ==
    /\ streamed /\ script = <<MsgDupCL, MsgBody>>
    /\ Len(emitted) = 2
    /\ emitted[1] = ErrEvent("MalformedMessage")
    /\ emitted[2].sink = "output" /\ emitted[2].msg.body = BodyOf(MsgBody)

\* The catalogue's messages with a header whose text fails its parser.
FailingHeaderMessages == {MsgCont, MsgBadCL, MsgPanic}

\* C10: a header that fails its parser never aborts a message, in either
\* mode: the loop keeps running, and once nothing is left to happen every
\* message written with such a header has been emitted as a Message.
C10_HeaderErrorsKept ==
    /\ \A t \in Tasks : tasks[t].pc # "panic"
    /\ Settled =>
        \A i \in DOMAIN script :
            script[i] \in FailingHeaderMessages
            => \E j \in DOMAIN emitted :
                /\ emitted[j].sink = "output"
                /\ MsgToken(emitted[j].msg) = TextToken(script[i])

\* The catalogue's datagrams with a valid start line and headers that do
\* not end the process: written alone, each yields one Message.
ValidDatagrams == {MsgBody, MsgResp, MsgCont, MsgNoCL, MsgDupCL, MsgBadCL}

HdrSubject ==
    <<"S","u","b","j","e","c","t",":"," ","f","o","o",CR,LF," ","b","a","r">>

\* S:a\r\n\tb\r\n c
HdrTabCont ==
    <<"S",":","a",CR,LF,TAB,"b",CR,LF," ","c">>

\* CALL-ID: x
HdrCallIdUpper ==
    <<"C","A","L","L","-","I","D",":"," ","x">>

\* CSEQ: 1 A
HdrCSeqUpper ==
    <<"C","S","E","Q",":"," ","1"," ","A">>

\* L: 0
HdrLengthUpper ==
    <<"L",":"," ","0">>

\* AUTHORIZATION: a
HdrAuthUpper ==
    <<"A","U","T","H","O","R","I","Z","A","T","I","O","N",":"," ","a">>

\* Proxy-authorization: a
HdrProxyAuthMixed ==
    <<"P","r","o","x","y","-","a","u","t","h","o","r","i","z","a","t","i",
      "o","n",":"," ","a">>

\* eXpires: 5
HdrExpiresMixed ==
    <<"e","X","p","i","r","e","s",":"," ","5">>

\* x-a: 1
HdrCustomLower ==
    <<"x","-","a",":"," ","1">>

\* X-A: 1
HdrCustomUpper ==
    <<"X","-","A",":"," ","1">>

\* X-Foo:  bar baz 
HdrGeneric ==
    <<"X","-","F","o","o",":"," "," ","b","a","r"," ","b","a","z"," ">>

\* x:y:z
HdrGenericColons ==
    <<"x",":","y",":","z">>

\* NoParser:
HdrGenericEmpty ==
    <<"N","o","P","a","r","s","e","r",":">>

\* Route: *
HdrRouteWild ==
    <<"R","o","u","t","e",":"," ","*">>

\* Record-Route: <*>
HdrRecordRouteWild ==
    <<"R","e","c","o","r","d","-","R","o","u","t","e",":"," ","<","*",">">>

\* To: *
HdrToWild ==
    <<"T","o",":"," ","*">>

\* f: *
HdrFromWild ==
    <<"f",":"," ","*">>

\* Contact: *
HdrContactWild ==
    <<"C","o","n","t","a","c","t",":"," ","*">>

\* Contact: *;expires=0
HdrContactWildParam ==
    <<"C","o","n","t","a","c","t",":"," ","*",";","e","x","p","i","r","e",
      "s","=","0">>

\* m: "B" <*>
HdrContactWildName ==
    <<"m",":"," ","\"","B","\""," ","<","*",">">>

\* m: B <*>
HdrContactWildBare ==
    <<"m",":"," ","B"," ","<","*",">">>

\* Contact: B <sip:a>;q=1
HdrContactUri ==
    <<"C","o","n","t","a","c","t",":"," ","B"," ","<","s","i","p",":","a",
      ">",";","q","=","1">>

\* Route: <sip:a>
HdrRouteUri ==
    <<"R","o","u","t","e",":"," ","<","s","i","p",":","a",">">>

\* CSeq: 2147483647 A
HdrCSeqMax ==
    <<"C","S","e","q",":"," ","2","1","4","7","4","8","3","6","4","7"," ",
      "A">>

\* CSeq: 2147483648 A
HdrCSeqOver ==
    <<"C","S","e","q",":"," ","2","1","4","7","4","8","3","6","4","8"," ",
      "A">>

\* CSeq: 4294967295 A
HdrCSeqMax32 ==
    <<"C","S","e","q",":"," ","4","2","9","4","9","6","7","2","9","5"," ",
      "A">>

\* CSeq: 4294967296 A
HdrCSeqOver32 ==
    <<"C","S","e","q",":"," ","4","2","9","4","9","6","7","2","9","6"," ",
      "A">>

\* CSeq: 1 A;B
HdrCSeqSemi ==
    <<"C","S","e","q",":"," ","1"," ","A",";","B">>

\* CSeq: 1
HdrCSeqOne ==
    <<"C","S","e","q",":"," ","1">>

\* CSeq: 1 A B
HdrCSeqThree ==
    <<"C","S","e","q",":"," ","1"," ","A"," ","B">>

\* CSeq: 7\tA
HdrCSeqTab ==
    <<"C","S","e","q",":"," ","7",TAB,"A">>

\* SIP 99 X
LineStatus99 ==
    <<"S","I","P"," ","9","9"," ","X">>

\* SIP 100 X
LineStatus100 ==
    <<"S","I","P"," ","1","0","0"," ","X">>

\* SIP 699 X Y
LineStatus699 ==
    <<"S","I","P"," ","6","9","9"," ","X"," ","Y">>

\* SIP 700 X
LineStatus700 ==
    <<"S","I","P"," ","7","0","0"," ","X">>

\* SIP 0 X
LineStatus0 ==
    <<"S","I","P"," ","0"," ","X">>

\* SIP 65536 X
LineStatusWide ==
    <<"S","I","P"," ","6","5","5","3","6"," ","X">>

\* SIP OK X
LineStatusWord ==
    <<"S","I","P"," ","O","K"," ","X">>

\* A * SIP
LineWildcard ==
    <<"A"," ","*"," ","S","I","P">>

\* HELLO WORLD
LineHello ==
    <<"H","E","L","L","O"," ","W","O","R","L","D">>

\* P sip:h SIP
LineRequest ==
    <<"P"," ","s","i","p",":","h"," ","S","I","P">>

\* K sip:h SIP\r\nl:0\r\n
DataNoEnd ==
    <<"K"," ","s","i","p",":","h"," ","S","I","P",CR,LF,"l",":","0",CR,LF>>

\* INVITE
DataNoLine ==
    <<"I","N","V","I","T","E">>

HeaderProbes ==
    {HdrSubject, HdrTabCont, HdrCallIdUpper, HdrCSeqUpper, HdrLengthUpper,
     HdrAuthUpper, HdrProxyAuthMixed, HdrExpiresMixed, HdrCustomLower,
     HdrCustomUpper, HdrGeneric, HdrGenericColons, HdrGenericEmpty,
     HdrRouteWild, HdrRecordRouteWild, HdrToWild, HdrFromWild,
     HdrContactWild, HdrContactWildParam, HdrContactWildName,
     HdrContactWildBare, HdrContactUri, HdrRouteUri, HdrCSeqMax,
     HdrCSeqOver, HdrCSeqMax32, HdrCSeqOver32, HdrCSeqSemi, HdrCSeqOne,
     HdrCSeqThree, HdrCSeqTab}

\* SIP 200 SIPX
LineStatusSip ==
    <<"S","I","P"," ","2","0","0"," ","S","I","P","X">>

\* sip/2 200 Not Found
LineStatusLower ==
    <<"s","i","p","/","2"," ","2","0","0"," ","N","o","t"," ","F","o","u",
      "n","d">>

StartLineProbes ==
    {LineStatus99, LineStatus100, LineStatus699, LineStatus700, LineStatus0,
     LineStatusWide, LineStatusWord, LineWildcard, LineHello, LineRequest,
     LineStatusSip, LineStatusLower}

\* The start lines among them that are no request line and no status line.
BadLines == {LineStatusWide, LineStatusWord, LineWildcard, LineHello}

Unframed == {DataNoEnd, DataNoLine}

\* A datagram of a request line and one logical header, and one of a start
\* line alone.
HeaderDatagram(headerText) ==
    LineRequest \o CRLF \o headerText \o CRLF \o CRLF
LineDatagram(startLine) == startLine \o CRLF \o CRLF

ProbeScripts ==
    {<<HeaderDatagram(h)>> : h \in HeaderProbes}
        \cup {<<LineDatagram(l)>> : l \in StartLineProbes}
        \cup {<<d>> : d \in Unframed}
        \cup {<<LineDatagram(l), HeaderDatagram(HdrGeneric)>> : l \in BadLines}
        \cup {<<DataNoEnd, LineDatagram(LineStatus100)>>}

\* The names and parsers an application registers before it writes.
SetNames == {<<"X","-","A">>, <<"x","-","a">>, <<"C","S","e","q">>}
CustomParsers == {"parseFirst", "parseSecond"}

\* p.SetHeaderParser(name, f), called before the first Write.
SetParserCall(name, f) ==
    /\ ~crashed /\ caller.pc = "idle"
    /\ caller.op \in {"none", "SetHeaderParser"}
    /\ headerParsers' = SetHeaderParser(headerParsers, name, f)
    /\ caller' = [caller EXCEPT !.op = "SetHeaderParser"]
    /\ UNCHANGED <<streamed, stopped, terminalErr, input, bodyLengths, done,
                   tasks, script, feed, emitted, crashed>>

SetParser == \E name \in SetNames : \E f \in CustomParsers : SetParserCall(name, f)

\* A datagram parser, an application that registers header parsers and
\* then writes one of the probes, and consumers on both sinks.
InitProbe == \E s \in ProbeScripts : InitWith(FALSE, s)

NextProbe ==
    \/ SetParser
    \/ Write
    \/ \E t \in Tasks : LoopStep(t)
    \/ \E t \in Tasks : RecvStartErr(t)
    \/ \E t \in Tasks : RecvOutput(t)

SpecProbe == InitProbe /\ [][NextProbe]_vars

PMWrite == caller.op = "none" /\ Write

\* select { case msg := <-output: ...; case err := <-errs: ... }
PMReceive(t) ==
    /\ caller.op = "Write" /\ caller.err = "nil" /\ emitted = <<>>
    /\ (RecvStartErr(t) \/ RecvOutput(t))

\* defer parser.Stop(), run once Write failed or the select has received.
PMStop ==
    /\ caller.op = "Write" /\ (caller.err # "nil" \/ emitted # <<>>)
    /\ StopCall

\* ParseMessage waits in its select.
PMSelects ==
    ~crashed /\ caller.op = "Write" /\ caller.err = "nil" /\ emitted = <<>>

\* ParseMessage has returned.
PMReturned == ~crashed /\ caller.op = "Stop" /\ caller.pc = "idle"

InitParseMessage ==
    \E s \in {p \in ProbeScripts : Len(p) = 1} \cup {<<m>> : m \in Catalogue} :
        InitWith(FALSE, s)

NextParseMessage ==
    \/ PMWrite
    \/ \E t \in Tasks : PMReceive(t)
    \/ PMStop
    \/ StopReturn
    \/ \E t \in Tasks : LoopStep(t)

SpecParseMessage == InitParseMessage /\ [][NextParseMessage]_vars

\* C13: ParseMessage terminates for every input: while it waits in its
\* select for the Message or the error of its parser, the framing loop has
\* a step to take or a send to offer, so the select is never left waiting
\* for a loop that itself waits for input nobody will write.
C13_ParseMessageReturns ==
    PMSelects => \E t \in Tasks : ~LoopWaits(t)

\* The Messages the output sink received for a probe of one header.
HeadersEmitted ==
    {emitted[i].msg.headers :
        i \in {j \in DOMAIN emitted : emitted[j].sink = "output"}}

\* C14: a header written as a first line and continuation lines is parsed
\* as one header whose value is the first line's value and the texts of
\* the continuation lines joined by a single space each: "Subject: foo",
\* " bar" yields the one header Subject with the value "foo bar", and
\* "S:a", "\tb", " c" the one header S with the value "a b c".
C14_ContinuationJoined ==
    \A hs \in HeadersEmitted :
        /\ script = <<HeaderDatagram(HdrSubject)>>
            => hs = <<[kind |-> "Generic",
                       name |-> <<"S","u","b","j","e","c","t">>,
                       contents |-> <<"f","o","o"," ","b","a","r">>]>>
        /\ script = <<HeaderDatagram(HdrTabCont)>>
            => hs = <<[kind |-> "Generic", name |-> <<"S">>,
                       contents |-> <<"a"," ","b"," ","c">>]>>

\* The header an application's parser f returns for the header x-a: 1.
CustomHeader(f) ==
    [kind |-> "Custom", parser |-> f, name |-> <<"x","-","a">>,
     contents |-> <<"1">>]

\* The probes that spell a default name in another case, and the kind of
\* header the name's typed parser yields.
DefaultCaseProbes ==
    {<<HdrCallIdUpper, "CallID">>, <<HdrCSeqUpper, "CSeq">>,
     <<HdrLengthUpper, "ContentLength">>, <<HdrAuthUpper, "Authorization">>,
     <<HdrProxyAuthMixed, "Authorization">>, <<HdrExpiresMixed, "Expires">>}

\* The registry holds one parser per name, under the lower-case name, and
\* every default name in it: with its typed parser unless the application
\* has put its own there.
RegistryKept ==
    /\ \A e \in headerParsers : e[1] = ToLower(e[1])
    /\ \A e1, e2 \in headerParsers : e1[1] = e2[1] => e1 = e2
    /\ \A d \in defaultHeaderParsers :
        /\ HasParser(headerParsers, ToLower(d[1]))
        /\ ParserOf(headerParsers, ToLower(d[1])) \in {d[2]} \cup CustomParsers

\* What the probes of the registry yield: a header x-a in either case goes
\* to the parser registered for it, a default name in any case to its
\* typed parser, or to the application's when that name was registered.
RegistryUsed ==
    \A hs \in HeadersEmitted :
        /\ \A h \in {HdrCustomLower, HdrCustomUpper} :
            (/\ script = <<HeaderDatagram(h)>>
             /\ HasParser(headerParsers, <<"x","-","a">>))
            => hs = <<CustomHeader(ParserOf(headerParsers, <<"x","-","a">>))>>
        /\ \A d \in DefaultCaseProbes :
            script = <<HeaderDatagram(d[1])>>
            => /\ Len(hs) = 1
               /\ \/ hs[1].kind = d[2]
                  \/ /\ d[1] = HdrCSeqUpper /\ hs[1].kind = "Custom"
                     /\ hs[1].parser = ParserOf(headerParsers,
                                                <<"c","s","e","q">>)

\* SetHeaderParser(name, f) makes f the one parser of name in every case,
\* whatever was registered for it before, and leaves every other name's
\* parser as it was.
RegistrySet ==
    \A name \in SetNames : \A f \in CustomParsers :
        SetParserCall(name, f)
        => /\ \A v \in SetNames :
                ToLower(v) = ToLower(name)
                => /\ HasParser(headerParsers', ToLower(v))
                   /\ ParserOf(headerParsers', ToLower(v)) = f
           /\ \A e \in headerParsers' : e[1] = ToLower(name) => e[2] = f
           /\ {e \in headerParsers' : e[1] # ToLower(name)}
                = {e \in headerParsers : e[1] # ToLower(name)}

\* C15: the parser's registry is case-insensitive and last-writer-wins:
\* after SetHeaderParser(name, f) every header whose field name equals name
\* ignoring case is parsed by f and by no parser registered before, and
\* every default name resolves to its typed parser in whatever case it is
\* written on the wire.
C15_RegistryCaseBlind ==
    [](RegistryKept /\ RegistryUsed) /\ [][RegistrySet]_vars

\* parseSecond is the parser registered for x-a, and the header x-a written
\* in lower case was parsed by it.
C15_Witness ==
    /\ script = <<HeaderDatagram(HdrCustomLower)>>
    /\ HasParser(headerParsers, <<"x","-","a">>)
    /\ ParserOf(headerParsers, <<"x","-","a">>) = "parseSecond"
    /\ HeadersEmitted = {<<CustomHeader("parseSecond")>>}

\* The probes whose field name has no parser in the default registry, with
\* the field name and the trimmed text after the first colon.
GenericProbes ==
    {<<HdrGeneric, <<"X","-","F","o","o">>, <<"b","a","r"," ","b","a","z">>>>,
     <<HdrGenericColons, <<"x">>, <<"y",":","z">>>>,
     <<HdrGenericEmpty, <<"N","o","P","a","r","s","e","r">>, <<>>>>,
     <<HdrCustomUpper, <<"X","-","A">>, <<"1">>>>,
     <<HdrCustomLower, <<"x","-","a">>, <<"1">>>>}

\* C16: a header whose field name has no registered parser yields exactly
\* one GenericHeader, named as the field name is written on the wire and
\* holding the text after the first colon without the whitespace around
\* it, and never an error: the datagram's Message carries that header and
\* the errs sink receives nothing.
C16_GenericFallback ==
    \A g \in GenericProbes :
        (/\ script = <<HeaderDatagram(g[1])>>
         /\ ~HasParser(headerParsers, ToLower(g[2])))
        => /\ \A hs \in HeadersEmitted :
                hs = <<[kind |-> "Generic", name |-> g[2],
                        contents |-> g[3]]>>
           /\ Errors(emitted) = <<>>
           /\ Settled => Len(Outputs(emitted)) = 1

\* The Message of X-Foo:  bar baz was received.
C16_Witness ==
    /\ script = <<HeaderDatagram(HdrGeneric)>>
    /\ Len(emitted) = 1 /\ emitted[1].sink = "output"
    /\ Len(emitted[1].msg.headers) = 1
    /\ emitted[1].msg.headers[1].kind = "Generic"
    /\ emitted[1].msg.headers[1].name = <<"X","-","F","o","o">>

\* The Messages the output sink received.
MessagesEmitted ==
    {emitted[i].msg : i \in {j \in DOMAIN emitted : emitted[j].sink = "output"}}

\* C17: a WildcardUri appears only in Contact headers: no emitted Message
\* has one as its request-URI or inside a To, From, Route or Record-Route
\* header; a start line or header that would put one there is rejected.
C17_WildcardOnlyInContact ==
    \A m \in MessagesEmitted :
        /\ ~m.recipient.wildcard
        /\ \A k \in DOMAIN m.headers :
            /\ m.headers[k].kind \in {"To", "From"}
                => ~m.headers[k].address.wildcard
            /\ m.headers[k].kind \in {"Route", "RecordRoute"}
                => \A a \in DOMAIN m.headers[k].addresses :
                        ~m.headers[k].addresses[a].wildcard

\* The probes of a wildcard Contact with a parameter or a display name.
DressedWildcards ==
    {HdrContactWildParam, HdrContactWildName, HdrContactWildBare}

\* C18: every Contact header that carries a WildcardUri has no display
\* name and no parameters; "*;expires=0" and a wildcard under a display
\* name fail header parsing, so the header is dropped and the Message is
\* emitted without it.
C18_BareWildcard ==
    \A m \in MessagesEmitted :
        /\ \A k \in DOMAIN m.headers :
            (m.headers[k].kind = "Contact" /\ m.headers[k].address.wildcard)
            => /\ m.headers[k].displayName = None
               /\ m.headers[k].params = NewParams
        /\ \A h \in DressedWildcards :
            script = <<HeaderDatagram(h)>> => m.headers = <<>>
        /\ script = <<HeaderDatagram(HdrContactWild)>>
            => m.headers = <<AddressHeader("Contact", None, WildcardUri,
                                           NewParams)>>

\* The Message of the datagram with Contact: *;expires=0 was received,
\* without a header.
C18_Witness ==
    /\ script = <<HeaderDatagram(HdrContactWildParam)>>
    /\ Len(emitted) = 1 /\ emitted[1].sink = "output"
    /\ emitted[1].msg.headers = <<>>

\* C19: every Response the parser emits has a status code in [100, 699]:
\* a status line whose status is outside that range is rejected with
\* InvalidStartLine and yields no Message.
C19_StatusInRange ==
    \A m \in MessagesEmitted :
        m.kind = "response"
        => /\ ~NumLess(m.statusCode, <<"1","0","0">>)
           /\ ~NumLess(<<"6","9","9">>, m.statusCode)

\* The CSeq probes parseCSeq has to reject: a sequence number above
\* 2**31 - 1, within and beyond 32 bits, a ';' in the method token, and a
\* value of one or of three tokens.
RejectedCSeqs ==
    {HdrCSeqOver, HdrCSeqMax32, HdrCSeqOver32, HdrCSeqSemi, HdrCSeqOne,
     HdrCSeqThree}

\* The CSeq probes of two tokens it has to accept, with the sequence number
\* and the method.
AcceptedCSeqs ==
    {<<HdrCSeqMax, <<"2","1","4","7","4","8","3","6","4","7">>, <<"A">>>>,
     <<HdrCSeqTab, <<"7">>, <<"A">>>>,
     <<HdrCSeqUpper, <<"1">>, <<"A">>>>}

\* C20: CSeq parsing rejects every sequence number above 2**31 - 1, those
\* above 2**32 - 1 included, and every value whose method token contains a
\* ';': every CSeq header it produces has a SeqNo of at most 2**31 - 1 and
\* a method without ';', and comes from a value of exactly two
\* whitespace-separated tokens.
C20_CSeqBounded ==
    \A m \in MessagesEmitted :
        /\ \A k \in DOMAIN m.headers :
            m.headers[k].kind = "CSeq"
            => /\ ~NumLess(<<"2","1","4","7","4","8","3","6","4","7">>,
                           m.headers[k].seqNo)
               /\ ~ContainsByte(m.headers[k].methodName, ";")
        /\ ParserOf(headerParsers, <<"c","s","e","q">>) = "parseCSeq"
            => /\ \A h \in RejectedCSeqs :
                    script = <<HeaderDatagram(h)>> => m.headers = <<>>
               /\ \A c \in AcceptedCSeqs :
                    script = <<HeaderDatagram(c[1])>>
                    => m.headers = <<[kind |-> "CSeq", seqNo |-> c[2],
                                      methodName |-> c[3]]>>

\* The Message of the datagram with CSeq: 2147483648 A was received,
\* without the header, by a parser with the default CSeq parser.
C20_Witness ==
    /\ script = <<HeaderDatagram(HdrCSeqOver)>>
    /\ ParserOf(headerParsers, <<"c","s","e","q">>) = "parseCSeq"
    /\ Len(emitted) = 1 /\ emitted[1].sink = "output"
    /\ emitted[1].msg.headers = <<>>

(***************************************************************************)
(* SetHeaderParser called while the framing loop runs.  The registry map   *)
(* is read by the loop (ParseHeader, called from flushBuffer) and written  *)
(* by the caller with no lock held by either.                              *)
(***************************************************************************)
\* The loop's next step is a flushBuffer() that calls ParseHeader, which
\* reads p.headerParsers: a header is buffered and the next line ends it.
LoopLooksUp(t) ==
    /\ tasks[t].pc = "headers" /\ tasks[t].buffer # <<>>
    /\ ~input.closed /\ LineReady(input)
    /\ \/ Len(NextLine(input).line) = 0
       \/ NextLine(input).line[1] \notin abnfWs

\* p.SetHeaderParser(name, f) at any time after construction.  A map write
\* that meets the loop's map read is a data race: the write may take
\* effect, or the runtime stops the process (concurrent map read and map
\* write).
SetParserLateCall(name, f) ==
    /\ ~crashed /\ caller.pc = "idle"
    /\ \E fatal \in IF \E t \in Tasks : LoopLooksUp(t)
                    THEN BOOLEAN ELSE {FALSE} :
        /\ crashed' = fatal
        /\ headerParsers' = IF fatal THEN headerParsers
                            ELSE SetHeaderParser(headerParsers, name, f)
    /\ caller' = [caller EXCEPT !.op = "SetHeaderParser"]
    /\ UNCHANGED <<streamed, stopped, terminalErr, input, bodyLengths, done,
                   tasks, script, feed, emitted>>

SetParserLate ==
    \E name \in SetNames : \E f \in CustomParsers : SetParserLateCall(name, f)

NextRace ==
    \/ SetParserLate
    \/ Write
    \/ \E t \in Tasks : LoopStep(t)
    \/ \E t \in Tasks : RecvStartErr(t)
    \/ \E t \in Tasks : RecvOutput(t)

SpecRace == InitProbe /\ [][NextRace]_vars

\* C21: registering a header parser after construction is safe against the
\* running framing loop: the registry is never written while the loop is
\* at its lookup in the registry with nothing that orders the two.
C21_RegistrySafe ==
    [][headerParsers' # headerParsers
       => ~\E t \in Tasks : LoopLooksUp(t)]_vars

\* C22: when the input buffer is closed after a message's start line was
\* read and before the message is complete, in its header block or in its
\* body, the error the loop reports for that message is a BrokenMessage
\* and it sends no Message for it: of a stream whose one message has a
\* valid Content-Length and is not written in full, the step that takes
\* the loop from that message to a send makes it the send of a
\* BrokenMessage.
C22_ClosedIsBroken ==
    [][\A t \in Tasks :
        (/\ input.closed /\ feed # <<>>
         /\ script[1] \in OneLengthMessages
         /\ tasks[t].pc \in {"headers", "bodyLen", "body"}
         /\ tasks'[t].pc \in {"sendErr", "sendOut"})
        => /\ tasks'[t].pc = "sendErr"
           /\ tasks'[t].termErr = "BrokenMessage"]_vars

\* In datagram mode: the pairs popped so far, all pairs being pushed by the
\* Write calls made, and the bytes the loop has taken out of the input.
PairsPopped == WritesMade - Len(bodyLengths.queue)
BytesConsumed ==
    Len(Flatten(SubSeq(script, 1, WritesMade))) - Len(input.data)

\* C23: in datagram mode every accepted Write pushes exactly one pair
\* (body length, length of the datagram) and the loop pops exactly one per
\* frame it handles: the queue holds, in order, the pairs of the datagrams
\* written and not yet popped, the pops never exceed the pushes, and when
\* the loop is at the start of a frame one pair was popped for every
\* Message or InvalidStartLine error it has sent and the bytes it has
\* consumed are the sum of the datagram lengths of the pairs popped.
C23_PairPerFrame ==
    (~streamed /\ ~crashed)
    => /\ PairsPopped \in 0..WritesMade
       /\ bodyLengths.queue
            = LengthPairs(SubSeq(script, PairsPopped + 1, WritesMade))
       /\ tasks[1].pc = "startLine"
            => /\ PairsPopped = Len(emitted)
               /\ BytesConsumed
                    = Len(Flatten(SubSeq(script, 1, PairsPopped)))

\* Two datagrams were written, one with a bad start line and one with a
\* body, both were handled and the loop waits for the next start line.
C23_Witness ==
    /\ ~streamed /\ ~crashed /\ script = <<MsgBadStart, MsgBody>>
    /\ feed = <<>> /\ tasks[1].pc = "startLine" /\ LoopWaits(1)
    /\ PairsPopped = 2 /\ Len(emitted) = 2 /\ BytesConsumed = 37

\* The probes of the form version SP status SP reason, with the version,
\* the status and the reason: the whole remainder of the line.
StatusLines ==
    {<<LineStatus100, SIP, <<"1","0","0">>, <<"X">>>>,
     <<LineStatus699, SIP, <<"6","9","9">>, <<"X"," ","Y">>>>,
     <<LineStatusLower, <<"s","i","p","/","2">>, <<"2","0","0">>,
       <<"N","o","t"," ","F","o","u","n","d">>>>,
     <<LineStatusSip, SIP, <<"2","0","0">>, <<"S","I","P","X">>>>}

\* C24: a start line "version SP status SP reason" whose first token begins
\* with SIP in any case and whose status is an unsigned 16-bit number is
\* handled as a response, whatever the reason is, a single word beginning
\* with SIP included: the Response has that version, that status and the
\* remainder of the line as its reason, and no error is reported.
C24_StatusLineIsResponse ==
    \A l \in StatusLines :
        script = <<LineDatagram(l[1])>>
        => /\ Errors(emitted) = <<>>
           /\ \A m \in MessagesEmitted :
                /\ m.kind = "response" /\ m.sipVersion = l[2]
                /\ m.statusCode = l[3] /\ m.reason = l[4]

(***************************************************************************)
(* The grammar's parsers called by themselves: ParseParams, ParseSipUri,   *)
(* ParseAddressValue, ParseAddressValues and the Via parser are package    *)
(* functions, so a caller reaches them without a parser.  A run holds one  *)
(* call in script; the call returns its result to emitted.                 *)
(***************************************************************************)
\* Every text of at most n bytes of the set S.
Texts(S, n) == UNION {[1..k -> S] : k \in 0..n}

\* A call of fn on a text.
CallOf(fn, text) == [fn |-> fn, text |-> text]

\* The bytes of the parameter blocks tried, and how long the blocks get.
ParamBytes == {"a", "\"", ";", "?", "="}
MaxParamLen == 4

\* The values given in quotes (sep is ';' and end is '?'), and what is put
\* behind the closing quote: what may follow it, and what may not.
QuotedValues ==
    {<<"x">>, <<";">>, <<"?">>, <<"x", ";", "y">>, <<"x", "?", "y">>}
GoodFollowers == {<<>>, <<";", "b">>, <<"?", "h">>}
BadFollowers == {<<"b">>, <<"=", "b">>, <<" ", ";", "b">>}

\* ;a="value" and what follows.
QuotedSource(value, follower) ==
    <<";", "a", "=", "\"">> \o value \o <<"\"">> \o follower

QuotedSources ==
    {QuotedSource(v, f) : v \in QuotedValues,
                          f \in GoodFollowers \cup BadFollowers}

\* The parameter lists a serializer is given: keys with no value, a plain
\* value, or a value holding a delimiter byte.
MaxParams == 2
RoundTripKeys == {<<"a">>, <<"b">>}
RoundTripValues ==
    {None, Some(<<"x">>), Some(<<"x", " ", "y">>), Some(<<"x", ";", "y">>),
     Some(<<"x", "?", "y">>), Some(<<"x", "=", "y">>)}
RoundTripParams ==
    UNION {[1..n -> [k : RoundTripKeys, v : RoundTripValues]] :
           n \in 1..MaxParams}

\* A serializer of parameter lists: the start byte, then key or key=value
\* items joined by sep, a value in quotes when it holds a delimiter byte.
NeedsQuotes(value) ==
    \E i \in 1..Len(value) : value[i] \in {";", "?", "=", " ", TAB}

SerializeItem(p) ==
    IF p.v = None THEN p.k
    ELSE IF NeedsQuotes(p.v[1])
    THEN p.k \o <<"=", "\"">> \o p.v[1] \o <<"\"">>
    ELSE p.k \o <<"=">> \o p.v[1]

RECURSIVE SerializeItems(_)
SerializeItems(P) ==
    IF Len(P) = 1 THEN SerializeItem(P[1])
    ELSE SerializeItem(P[1]) \o <<";">> \o SerializeItems(Tail(P))

SerializeParams(P) == <<";">> \o SerializeItems(P)

\* The parameter blocks ParseParams is called on.
ParamSources ==
    {<<";">> \o t : t \in Texts(ParamBytes, MaxParamLen)}
    \cup QuotedSources
    \cup {SerializeParams(P) : P \in RoundTripParams}
\* The user-info parts tried: none, a user, a user and a password.
UserInfos ==
    {<<>>,
     <<"u","@">>,
     <<"u",":","p","@">>}

\* host[:port] sections with a port of 16 bits or none,
GoodHostPorts ==
    {<<"h">>,
     <<"h",":","5">>,
     <<"h",":","6","5","5","3","5">>}

\* and sections with a port that is no 16-bit number.
BadHostPorts ==
    {<<"h",":">>,
     <<"h",":","x">>,
     <<"h",":","6","5","5","3","6">>}

\* What follows host[:port]: parameters, headers, both, and headers with a
\* ';' in a value.
UriTails ==
    {<<>>,
     <<";","a">>,
     <<";","a","=","b">>,
     <<"?","a","=","b">>,
     <<";","a","?","b","=","c">>,
     <<"?","a","=","b",";","c">>}

\* Address values with a '<' outside quotes and no '>' after it.
UnclosedAddresses ==
    {<<"<">>,
     <<"<","s","i","p",":","h">>,
     <<"a"," ","<","s","i","p",":","h">>,
     <<"\"","a","\""," ","<","s","i","p",":","h">>,
     <<"<","s","i","p",":","h",";","b","=","c">>}

\* Address segments ParseAddressValue accepts; two hold a comma in quotes
\* or in brackets.
GoodSegments ==
    {<<"s","i","p",":","a">>,
     <<"<","s","i","p",":","b",">">>,
     <<"\"","x",",","y","\""," ","<","s","i","p",":","a",">">>,
     <<"b"," ","<","s","i","p",":","a",";","p","=","q",",","r",">",";","t","=",
      "u">>}

\* Address segments ParseAddressValue rejects with an error.
BadSegments ==
    {<<>>,
     <<"a">>,
     <<"b"," ","s","i","p",":","a">>,
     <<"\"","b">>}

\* Via sections that make a hop,
SectionUdp ==
    <<"S","I","P","/","2",".","0","/","U","D","P"," ","h">>
SectionTcp ==
    <<" ","S","I","P"," ","/"," ","2",".","0"," ","/"," ","T","C","P"," ",
      "h",":","5",";","b","=","c">>
SectionQuoted ==
    <<"S","I","P","/","2",".","0","/","U","D","P"," ","h",";","a","=","\"",
      "b","\"">>
GoodSections == {SectionUdp, SectionTcp, SectionQuoted}

\* and sections with too few parts, an empty field, a bad port or bad
\* parameters; the last two are the halves of h;a="b,c".
BadSections ==
    {<<"S","I","P","/","2",".","0">>,
     <<"/","2",".","0","/","U","D","P"," ","h">>,
     <<"S","I","P","/","/","U","D","P"," ","h">>,
     <<"S","I","P","/","2",".","0","/"," ","h">>,
     <<"S","I","P","/","2",".","0","/","U","D","P">>,
     <<"S","I","P","/","2",".","0","/","U","D","P"," ","h",":","x">>,
     <<"S","I","P","/","2",".","0","/","U","D","P"," ","h",";","=">>,
     <<"S","I","P","/","2",".","0","/","U","D","P"," ","h",";","a","=","\"","b">>,
     <<"c","\"">>}


\* Up to n of the segments S, in every order.
SegmentLists(S, n) == UNION {[1..k -> S] : k \in 1..n}

\* sip: URIs made of a user-info part, a host[:port] section and a tail.
SipScheme == <<"s", "i", "p", ":">>
SipUriText(user, hostPort, tail) == SipScheme \o user \o hostPort \o tail
SipUriTexts ==
    {SipUriText(u, hp, t) : u \in UserInfos,
                            hp \in GoodHostPorts \cup BadHostPorts,
                            t \in UriTails}

\* Address lists of up to MaxSegments segments, and Via values of up to
\* MaxSections sections, joined by commas.
MaxSegments == 2
MaxSections == 2
AddressLists ==
    {Join(segs, ",") :
        segs \in SegmentLists(GoodSegments \cup BadSegments
                              \cup UnclosedAddresses, MaxSegments)}
ViaTexts ==
    {Join(secs, ",") :
        secs \in SegmentLists(GoodSections \cup BadSections, MaxSections)}

\* Call-ID: x
HdrCallId ==
    <<"C","a","l","l","-","I","D",":"," ","x">>

\* Proxy-Authorization: a=b
HdrProxyAuth ==
    <<"P","r","o","x","y","-","A","u","t","h","o","r","i","z","a","t","i",
      "o","n",":"," ","a","=","b">>

\* Subject
HdrNoColon ==
    <<"S","u","b","j","e","c","t">>

\* The header texts ParseHeader is called on: the probes of one line, and
\* three more.
HeaderTexts ==
    (HeaderProbes \ {HdrSubject, HdrTabCont})
        \cup {HdrCallId, HdrProxyAuth, HdrNoColon}

\* Every call tried.
Calls ==
    {CallOf("ParseParams", s) : s \in ParamSources}
    \cup {CallOf("ParseSipUri", s) : s \in SipUriTexts}
    \cup {CallOf("ParseAddressValue", s) :
            s \in GoodSegments \cup BadSegments \cup UnclosedAddresses}
    \cup {CallOf("ParseAddressValues", s) : s \in AddressLists}
    \cup {CallOf("parseViaHeader", s) : s \in ViaTexts}
    \cup {CallOf("ParseHeader", s) : s \in HeaderTexts}

\* The call about to be made, the call made and what it returned.
Calling(fn) == ~crashed /\ feed # <<>> /\ Head(feed).fn = fn
Called(fn, text) == emitted # <<>> /\ script[1] = CallOf(fn, text)
Returned == emitted[1].res

\* The function returns res; a Go panic in it ends the process.
Returns(res) ==
    /\ emitted' = Append(emitted, [sink |-> "result", res |-> res])
    /\ crashed' = (res.err = "panic")
    /\ feed' = Tail(feed)
    /\ caller' = [caller EXCEPT !.op = Head(feed).fn]
    /\ UNCHANGED <<streamed, stopped, terminalErr, headerParsers, input,
                   bodyLengths, done, tasks, script>>

\* ParseParams on a ';'-separated block that a '?' ends, quoted values and
\* singletons allowed, as ParseSipUri calls it.
CallParseParams ==
    /\ Calling("ParseParams")
    /\ \E res \in {ParseParams(Head(feed).text, ";", ";", "?", TRUE, TRUE)} :
        Returns(res)

CallParseSipUri ==
    /\ Calling("ParseSipUri")
    /\ \E res \in {ParseSipUri(Head(feed).text)} : Returns(res)

CallParseAddressValue ==
    /\ Calling("ParseAddressValue")
    /\ \E res \in {ParseAddressValue(Head(feed).text)} : Returns(res)

CallParseAddressValues ==
    /\ Calling("ParseAddressValues")
    /\ \E res \in {ParseAddressValues(Head(feed).text)} : Returns(res)

CallParseVia ==
    /\ Calling("parseViaHeader")
    /\ \E res \in {parseViaHeader(<<"v", "i", "a">>, Head(feed).text)} :
        Returns(res)

\* ParseHeader(headerText, nil): the lookup is in defaultHeaderParsers().
CallParseHeader ==
    /\ Calling("ParseHeader")
    /\ \E res \in {ParseHeader(Head(feed).text, defaultHeaderParsers)} :
        Returns(res)

InitCalls == \E call \in Calls : InitWith(FALSE, <<call>>)

NextCalls ==
    \/ CallParseParams
    \/ CallParseSipUri
    \/ CallParseAddressValue
    \/ CallParseAddressValues
    \/ CallParseVia
    \/ CallParseHeader

SpecCalls == InitCalls /\ [][NextCalls]_vars

\* C25: with quoted values allowed, ParseParams accepts a closing quote
\* exactly when sep, end or the end of the text follows it at once, and the
\* sep and end bytes inside the quotes are copied into the value: ;a="v"
\* followed by nothing, by ;b or by ?h parses with a = v, and followed by
\* anything else is an error.
C25_ClosingQuote ==
    \A v \in QuotedValues : \A f \in GoodFollowers \cup BadFollowers :
        Called("ParseParams", QuotedSource(v, f))
            => /\ (Returned.err = "nil") <=> (f \in GoodFollowers)
               /\ Returned.err = "nil"
                    => Returned.params[1] = [k |-> <<"a">>, v |-> Some(v)]

\* C26: ParseParams undoes a serializer that writes the start byte and the
\* items joined by sep and puts a value in quotes when it holds a delimiter
\* byte: called with quoted values and singletons allowed on the text of a
\* parameter list, it returns that list, in order, and no error.
C26_RoundTrip ==
    \A P \in RoundTripParams :
        Called("ParseParams", SerializeParams(P))
            => Returned.err = "nil" /\ Returned.params = P

\* The host and the port a host[:port] section stands for.
HostOf(hostPort) ==
    IF IndexByte(hostPort, ":") = -1 THEN hostPort
    ELSE Slice(hostPort, 0, IndexByte(hostPort, ":"))
PortOf(hostPort) ==
    IF IndexByte(hostPort, ":") = -1 THEN None
    ELSE Some(From(hostPort, IndexByte(hostPort, ":") + 1))

\* C27: in a SIP URI the host[:port] section ends at the first ';' or '?'
\* after the user-info part, whichever comes first: an accepted URI has the
\* host and the port of that section, no ';' and no '?' in its host, and a
\* URI whose port is no 16-bit decimal number is rejected.
C27_HostPortSection ==
    \A u \in UserInfos : \A hp \in GoodHostPorts \cup BadHostPorts :
        \A t \in UriTails :
            Called("ParseSipUri", SipUriText(u, hp, t))
                => /\ hp \in BadHostPorts => Returned.err # "nil"
                   /\ Returned.err = "nil"
                        => /\ Returned.uri.host = HostOf(hp)
                           /\ Returned.uri.port = PortOf(hp)

\* The address lists with an unclosed '<' as one of their segments.
UnclosedLists ==
    {Join(segs, ",") :
        segs \in {l \in SegmentLists(GoodSegments \cup UnclosedAddresses,
                                     MaxSegments) :
                    \E i \in 1..Len(l) : l[i] \in UnclosedAddresses}}

\* C28: an address value with a '<' outside quotes and no '>' after it is
\* an error, given to ParseAddressValue or as a segment of the list given
\* to ParseAddressValues: the call returns an error, never a success and
\* never a crash.
C28_UnclosedBracketFails ==
    /\ \A a \in UnclosedAddresses :
        Called("ParseAddressValue", a) => Returned.err \notin {"nil", "panic"}
    /\ \A l \in UnclosedLists :
        Called("ParseAddressValues", l) => Returned.err \notin {"nil", "panic"}

\* C29: ParseAddressValues splits the list at the commas outside angle
\* brackets and outside quotes and gives every segment to
\* ParseAddressValue: when it succeeds, display names, URIs and parameter
\* lists are as many as the segments and hold, in order, what
\* ParseAddressValue makes of each segment; a segment in error makes the
\* call fail.
C29_EverySegmentParsed ==
    \A segs \in SegmentLists(GoodSegments \cup BadSegments, MaxSegments) :
        Called("ParseAddressValues", Join(segs, ","))
            => /\ (\E i \in 1..Len(segs) : segs[i] \in BadSegments)
                    => Returned.err # "nil"
               /\ Returned.err = "nil"
                    => /\ Len(Returned.displayNames) = Len(segs)
                       /\ Len(Returned.uris) = Len(segs)
                       /\ Len(Returned.headerParams) = Len(segs)
                       /\ \A i \in 1..Len(segs) :
                            AddrResult(Returned.displayNames[i],
                                       Returned.uris[i],
                                       Returned.headerParams[i], "nil")
                                = ParseAddressValue(segs[i])

\* The hop each of the good sections stands for.
ViaHop(name, version, transport, host, port, params) ==
    [protocolName |-> name, protocolVersion |-> version,
     transport |-> transport, host |-> host, port |-> port,
     params |-> params]

HopOf(section) ==
    CASE section = SectionUdp ->
            ViaHop(SIP, <<"2", ".", "0">>, <<"U", "D", "P">>, <<"h">>, None,
                   <<>>)
      [] section = SectionTcp ->
            ViaHop(SIP, <<"2", ".", "0">>, <<"T", "C", "P">>, <<"h">>,
                   Some(<<"5">>), <<[k |-> <<"b">>, v |-> Some(<<"c">>)]>>)
      [] section = SectionQuoted ->
            ViaHop(SIP, <<"2", ".", "0">>, <<"U", "D", "P">>, <<"h">>, None,
                   <<[k |-> <<"a">>, v |-> Some(<<"b">>)]>>)

\* C30: a Via value is split at every comma; when it parses it makes one
\* Via header whose hops are the sections in their order, and a section
\* with fewer than three '/' parts, an empty protocol name, version or
\* transport, a bad port or bad parameters makes the whole value an error.
C30_ViaHops ==
    \A secs \in SegmentLists(GoodSections \cup BadSections, MaxSections) :
        (caller.op = "parseViaHeader"
         /\ Called("parseViaHeader", Join(secs, ",")))
            => /\ (\E i \in 1..Len(secs) : secs[i] \in BadSections)
                    => Returned.err # "nil"
               /\ Returned.err = "nil"
                    => /\ Len(Returned.headers) = 1
                       /\ Returned.headers[1].kind = "Via"
                       /\ Len(Returned.headers[1].hops) = Len(secs)
                       /\ \A i \in 1..Len(secs) :
                            Returned.headers[1].hops[i] = HopOf(secs[i])

\* A value of two sections was parsed into one Via header of two hops, the
\* UDP hop before the TCP hop.
C30_Witness ==
    /\ Called("parseViaHeader", Join(<<SectionUdp, SectionTcp>>, ","))
    /\ Returned.err = "nil"
    /\ Len(Returned.headers) = 1
    /\ Returned.headers[1].hops = <<HopOf(SectionUdp), HopOf(SectionTcp)>>

(***************************************************************************)
(* Message bodies.                                                         *)
(***************************************************************************)
\* P sip:h SIP\r\nl:2\r\n\r\nab
BodyText ==
    <<"P"," ","s","i","p",":","h"," ","S","I","P",CR,LF,"l",":","2",CR,LF,
      CR,LF,"a","b">>

\* Q sip:h SIP\r\nl:2\r\n\r\n \t
BodyBlank ==
    <<"Q"," ","s","i","p",":","h"," ","S","I","P",CR,LF,"l",":","2",CR,LF,
      CR,LF," ",TAB>>

\* R sip:h SIP\r\nl:2\r\n\r\n\r\n
BodyCrLf ==
    <<"R"," ","s","i","p",":","h"," ","S","I","P",CR,LF,"l",":","2",CR,LF,
      CR,LF,CR,LF>>

\* S sip:h SIP\r\nl:3\r\n\r\n a 
BodyPadded ==
    <<"S"," ","s","i","p",":","h"," ","S","I","P",CR,LF,"l",":","3",CR,LF,
      CR,LF," ","a"," ">>

\* SIP 200 OK\r\nl: 0\r\n\r\n
BodyNone ==
    <<"S","I","P"," ","2","0","0"," ","O","K",CR,LF,"l",":"," ","0",CR,LF,
      CR,LF>>

\* T sip:h SIP\r\nX:1\r\n\r\nab
BodyNoLength ==
    <<"T"," ","s","i","p",":","h"," ","S","I","P",CR,LF,"X",":","1",CR,LF,
      CR,LF,"a","b">>

\* U sip:h SIP\r\nl:5\r\n\r\nab
BodyOtherLength ==
    <<"U"," ","s","i","p",":","h"," ","S","I","P",CR,LF,"l",":","5",CR,LF,
      CR,LF,"a","b">>

\* V sip:h SIP\r\nX:1\r\n\r\n  
BodyBlankNoLength ==
    <<"V"," ","s","i","p",":","h"," ","S","I","P",CR,LF,"X",":","1",CR,LF,
      CR,LF," "," ">>

\* The messages whose Content-Length is the length of their body, and those
\* only a datagram frames: no Content-Length, or one that is not the
\* length of the body.
FramedBodies == {BodyText, BodyBlank, BodyCrLf, BodyPadded, BodyNone}
DatagramBodies == {BodyNoLength, BodyOtherLength, BodyBlankNoLength}
BodyCatalogue(mode) ==
    IF mode THEN FramedBodies \cup {MsgBadStart}
    ELSE FramedBodies \cup DatagramBodies \cup {MsgBadStart}

\* A parser of either mode and a caller that writes up to MaxOpMsgs of
\* these messages.
InitBody ==
    \E mode \in BOOLEAN :
        \E s \in UNION {[1..k -> BodyCatalogue(mode)] : k \in 1..MaxOpMsgs} :
            InitWith(mode, s)

NextBody ==
    \/ Write
    \/ \E t \in Tasks : LoopStep(t)
    \/ \E t \in Tasks : RecvStartErr(t)
    \/ \E t \in Tasks : RecvOutput(t)

SpecBody == InitBody /\ [][NextBody]_vars

\* The written text an emitted message comes from, the bytes behind its
\* header block, and the values of the Content-Length headers it was
\* written with.
BodySourceOf(m) ==
    CHOOSE text \in FramedBodies \cup DatagramBodies :
        TextToken(text) = MsgToken(m)

DeclaredLengths(text) ==
    CASE text \in {BodyText, BodyBlank, BodyCrLf} -> <<<<"2">>>>
      [] text = BodyPadded -> <<<<"3">>>>
      [] text = BodyNone -> <<<<"0">>>>
      [] text = BodyOtherLength -> <<<<"5">>>>
      [] OTHER -> <<>>

LengthValues(m) ==
    [i \in 1..Len(ContentLengthHeaders(m)) |->
        ContentLengthHeaders(m)[i].value]

\* C31: the body of an emitted Message is the bytes read for the declared
\* body length when they are not all whitespace, and empty otherwise; the
\* Message keeps the Content-Length headers it was written with, none
\* added and none changed; and a message with Content-Length: 0 is emitted
\* with an empty body and no error.
C31_BodyAsRead ==
    /\ \A i \in DOMAIN emitted :
        emitted[i].sink = "output"
            => /\ emitted[i].msg.body =
                    IF TrimSpace(BodyOf(BodySourceOf(emitted[i].msg))) = <<>>
                    THEN <<>>
                    ELSE BodyOf(BodySourceOf(emitted[i].msg))
               /\ LengthValues(emitted[i].msg) =
                    DeclaredLengths(BodySourceOf(emitted[i].msg))
    /\ (Settled /\ \A i \in DOMAIN script : script[i] = BodyNone)
        => /\ Len(emitted) = Len(script)
           /\ \A i \in DOMAIN emitted :
                emitted[i].sink = "output" /\ emitted[i].msg.body = <<>>

\* A stream parser emitted the message with a body of blanks, its body
\* empty and its Content-Length still 2.
C31_Witness ==
    /\ streamed /\ script = <<BodyBlank>> /\ Len(emitted) = 1
    /\ emitted[1].sink = "output" /\ emitted[1].msg.body = <<>>
    /\ LengthValues(emitted[1].msg) = <<<<"2">>>>

(***************************************************************************)
(* The terminal-error cell.                                                *)
(***************************************************************************)
\* The errs sink receives an error in this step.
ErrorSent ==
    /\ Len(emitted') = Len(emitted) + 1
    /\ emitted'[Len(emitted')].sink = "errs"

\* A framing goroutine takes a step of its header loop.
HeaderLoopStep ==
    \E t \in Tasks : tasks[t].pc = "headers" /\ tasks'[t] # tasks[t]

\* C32: an error the errs sink receives was stored in the terminal-error
\* cell before it was sent, so that the cell holds the error just reported;
\* the cell goes back to nil only in Reset; and the header loop, where the
\* header-level errors arise, neither changes the cell nor sends anything.
C32_CellHoldsReported ==
    [][/\ ErrorSent => terminalErr' = emitted'[Len(emitted')].err
       /\ (terminalErr # "nil" /\ terminalErr' = "nil")
            => caller'.resets = caller.resets + 1
       /\ HeaderLoopStep => terminalErr' = terminalErr /\ emitted' = emitted
      ]_vars

(***************************************************************************)
(* Reset and the framing goroutines.                                       *)
(***************************************************************************)
\* The goroutine is at a read of p.input.
ReadsInput(t) == tasks[t].pc \in {"startLine", "headers", "body", "skipChunk"}

\* C33: whatever Write, Stop and Reset calls the caller makes, Reset while
\* the earlier goroutine still runs included, at most one framing
\* goroutine reads the input buffer at any time.
C33_OneReader ==
    \A t, u \in Tasks : (ReadsInput(t) /\ ReadsInput(u)) => t = u

\* Reset was the caller's last call and Stop came before it.
AfterStopReset == ~crashed /\ caller.op = "Reset" /\ caller.stops > 0

\* The caller's Write returns in this step.
WriteReturns == caller'.op = "Write" /\ feed' # feed

\* C34: after Stop and then Reset the parser works again in its mode: the
\* goroutine Reset started stays in the framing loop, and the next Write
\* is accepted, all its bytes taken and no error, so that its message can
\* reach the output sink.
C34_UsableAfterReset ==
    /\ [](AfterStopReset => tasks[caller.resets + 1].pc # "exited")
    /\ [][(AfterStopReset /\ WriteReturns)
            => /\ ~crashed'
               /\ caller'.err = "nil"
               /\ caller'.n > 0]_vars

\* The kinds of the headers a result holds.
HeaderKinds(r) == [i \in 1..Len(r.headers) |-> r.headers[i].kind]

\* C35: ParseHeader with no parser finds the same header parsers as with a
\* parser just built and no SetHeaderParser since: on every header text
\* both fail or both return headers of the same kinds, the Call-ID,
\* Authorization and Proxy-Authorization headers among them.
C35_NilParserSame ==
    \A text \in HeaderTexts :
        Called("ParseHeader", text)
            => /\ (Returned.err = "nil")
                    <=> (ParseHeader(text, headerParsers).err = "nil")
               /\ Returned.err = "nil"
                    => HeaderKinds(Returned)
                        = HeaderKinds(ParseHeader(text, headerParsers))

\* C36: every parameter ParseParams returns has a key of at least one
\* byte: a text with an empty item (the start byte alone, a sep at the end,
\* two sep in a row) is an error or adds no parameter for the empty item.
C36_KeysNotEmpty ==
    \A source \in ParamSources :
        Called("ParseParams", source)
            => \A i \in 1..Len(Returned.params) : Returned.params[i].k # <<>>

====
